---------------------------- MODULE Spec2Model ----------------------------
(***************************************************************************)
(* Model of the file namer (src/newapp.py, src/newapp2.py, src/newapp3.py). *)
(*                                                                         *)
(* File names are sequences of one-character strings, so that the regular  *)
(* expressions and the pathlib stem/suffix split of the source are         *)
(* computed, never assumed.                                                *)
(*                                                                         *)
(* Specifications:                                                         *)
(*   FnSpec    the pure helpers (parse_b_file_num_and_base,                *)
(*             build_hm_index_for_set, find_a_date_dir, is_date_folder,    *)
(*             list_all_b_files, fast_rename_or_move and the transfer      *)
(*             disciplines) applied to inputs drawn from bounded sets;     *)
(*   CopySpec  safe_copy2_atomic, one step of the attempt per action,      *)
(*             with failures injected by the environment;                  *)
(*   Spec      App.run.worker of the three variants over a small B tree,   *)
(*             a fixed A tree and an output directory;                     *)
(*   AppSpec   App.run, the worker thread and App._ui_tick interleaved,    *)
(*             over runs started one after another.                        *)
(***************************************************************************)
EXTENDS Integers, Sequences, FiniteSets, TLC

VARIABLES
    fnCall,        \* FnSpec: <<function name, input>> or <<"idle">>
    fnOut,         \* FnSpec: <<"none">> before the call, <<"ret", value>> after
    cp,            \* CopySpec: the state of one call of safe_copy2_atomic
    app,           \* Spec: the variant that runs, "newapp", "newapp2", "newapp3"
    discipline,    \* how it transfers: "copy", "move", "inplace", "rename"
    sameDevice,    \* whether the B tree and the output root share a device
    files,         \* files = list(list_all_b_files(b_date))
    disk,          \* the regular files of the B tree and of the output root
    dirs,          \* the nn for which out_root/yymmdd/nn is a directory
    pc,            \* the statement the worker is at
    idx,           \* the number of records the for loop has gone through
    hm_cache,      \* hm_cache: cache_key -> mapping
    created_dirs,  \* created_dirs, by nn
    manifest_rows, \* manifest_rows
    stats,         \* self._stats
    queue,         \* self._q
    manifest_file, \* the rows of _manifest.csv on disk, <<>> while there is none
    raised,        \* an exception has left the for loop
    calls,         \* the calls of build_hm_index_for_set and of mkdir made
    ui             \* AppSpec: the front end (App.run, App._ui_tick, the thread)

fvars == <<fnCall, fnOut>>

wvars == <<app, discipline, sameDevice, files, disk, dirs, pc, idx, hm_cache,
           created_dirs, manifest_rows, stats, queue, manifest_file, raised,
           calls>>

vars == <<fnCall, fnOut, cp, app, discipline, sameDevice, files, disk, dirs,
          pc, idx, hm_cache, created_dirs, manifest_rows, stats, queue,
          manifest_file, raised, calls, ui>>

\* no helper is under call (the other specifications)
FnIdle == fnCall = <<"idle">> /\ fnOut = <<"none">>

\* no worker runs (the other specifications)
WorkerIdle ==
    /\ app = "none" /\ discipline = "none" /\ sameDevice = FALSE
    /\ files = <<>> /\ disk = {} /\ dirs = {} /\ pc = "none" /\ idx = 0
    /\ hm_cache = <<>> /\ created_dirs = {} /\ manifest_rows = <<>>
    /\ stats = <<>> /\ queue = <<>> /\ manifest_file = <<>> /\ raised = FALSE
    /\ calls = <<>>

\* no front end (the other specifications)
UiIdle == ui = <<>>

(***************************************************************************)
(* Characters                                                              *)
(***************************************************************************)
Digits == {"0", "1", "2", "3", "4", "5", "6", "7", "8", "9"}

LowerLetters ==
    {"a", "b", "c", "d", "e", "f", "g", "h", "i", "j", "k", "l", "m",
     "n", "o", "p", "q", "r", "s", "t", "u", "v", "w", "x", "y", "z"}

UpperSeq ==
    <<"A", "B", "C", "D", "E", "F", "G", "H", "I", "J", "K", "L", "M",
      "N", "O", "P", "Q", "R", "S", "T", "U", "V", "W", "X", "Y", "Z">>

LowerSeq ==
    <<"a", "b", "c", "d", "e", "f", "g", "h", "i", "j", "k", "l", "m",
      "n", "o", "p", "q", "r", "s", "t", "u", "v", "w", "x", "y", "z">>

UpperLetters == {UpperSeq[i] : i \in 1..Len(UpperSeq)}

\* A decimal digit outside ASCII: U+0663 ARABIC-INDIC DIGIT THREE, one
\* character, written here by its code point.
NonAsciiDigits == {"U+0663"}

\* The order of the characters used, as their code points order them
\* (sorted() of sibling paths compares their names character by character).
AsciiOrder ==
    <<" ", "-", ".", "0", "1", "2", "3", "4", "5", "6", "7", "8", "9">>
    \o UpperSeq \o <<"_">> \o LowerSeq \o <<"U+0663">>

Ord(c) == CHOOSE i \in 1..Len(AsciiOrder) : AsciiOrder[i] = c

\* \d of the regular expressions (str patterns, so every Unicode decimal
\* digit), str.isdigit() of find_a_date_dir
IsDigit(c) == c \in Digits \cup NonAsciiDigits

\* \w of the regular expressions: letters, digits and the underscore
IsWordChar(c) ==
    \/ IsDigit(c)
    \/ c \in LowerLetters \cup UpperLetters \cup {"_"}

\* str.lower() and the (?i) flag, one character
LowerChar(c) ==
    IF c \in UpperLetters
    THEN LowerSeq[CHOOSE i \in 1..Len(UpperSeq) : UpperSeq[i] = c]
    ELSE c

\* s[i:] of a sequence (1-based, inclusive start)
From(s, i) == SubSeq(s, i, Len(s))

\* positions of the character c in s
Positions(s, c) == {i \in 1..Len(s) : s[i] = c}

Max(S) == CHOOSE x \in S : \A y \in S : y <= x

Min(S) == CHOOSE x \in S : \A y \in S : x <= y

\* whether the text t occurs in s at position i, case-insensitively
MatchesAt(s, i, t) ==
    /\ i >= 1
    /\ i + Len(t) - 1 <= Len(s)
    /\ \A k \in 1..Len(t) : LowerChar(s[i + k - 1]) = t[k]

(***************************************************************************)
(* pathlib: Path.suffix and Path.stem of a file name                       *)
(***************************************************************************)
\* i = name.rfind("."); the suffix is name[i:] iff 0 < i < len(name) - 1
\* (0-based), that is the last dot is neither the first nor the last
\* character.
SuffixStart(name) ==
    LET dots == Positions(name, ".")
    IN  IF dots = {} THEN 0
        ELSE LET i == Max(dots)
             IN  IF 1 < i /\ i < Len(name) THEN i ELSE 0

Suffix(name) ==
    IF SuffixStart(name) = 0 THEN <<>> ELSE From(name, SuffixStart(name))

Stem(name) ==
    IF SuffixStart(name) = 0 THEN name
    ELSE SubSeq(name, 1, SuffixStart(name) - 1)

\* str.rstrip("_")
RECURSIVE RStripUnderscore(_)
RStripUnderscore(s) ==
    IF s # <<>> /\ s[Len(s)] = "_"
    THEN RStripUnderscore(SubSeq(s, 1, Len(s) - 1))
    ELSE s

(***************************************************************************)
(* parse_b_file_num_and_base                                               *)
(***************************************************************************)
\* IMG_NUM_RE = (?:^|_)(\d{2})(?=\D*$): the group (two digits) starts at p
\* (1-based) when it is anchored at the start or after an underscore ...
ImgNumAnchoredFree(stem, p) == TRUE

ImgNumAnchored(stem, p) == p = 1 \/ stem[p - 1] = "_"

\* ... and only non-digits follow it up to the end of the stem.
ImgNumLookaheadFree(stem, p) == TRUE

ImgNumLookahead(stem, p) == \A k \in (p + 2)..Len(stem) : ~IsDigit(stem[k])

ImgNumMatches(stem) ==
    {p \in 1..(Len(stem) - 1) :
        /\ IsDigit(stem[p])
        /\ IsDigit(stem[p + 1])
        /\ ImgNumAnchored(stem, p)
        /\ ImgNumLookahead(stem, p)}

\* (None, None, None)
ParseFailure == [ok |-> FALSE, nn |-> <<>>, base |-> <<>>, ext |-> <<>>]

\* re.search returns the leftmost match; start = m.start(1) is p - 1.
parse_b_file_num_and_base(name) ==
    LET stem == Stem(name)
        ms   == ImgNumMatches(stem)
    IN  IF ms = {} THEN ParseFailure
        ELSE LET p    == Min(ms)
                 base == IF p > 1 /\ stem[p - 1] = "_"
                         THEN SubSeq(stem, 1, p - 2)
                         ELSE SubSeq(stem, 1, p - 1)
             IN  [ok   |-> TRUE,
                  nn   |-> SubSeq(stem, p, p + 1),
                  base |-> RStripUnderscore(base),
                  ext  |-> Suffix(name)]

(***************************************************************************)
(* build_hm_index_for_set                                                  *)
(***************************************************************************)
\* A_NN_END_RE = _(\d{2})(?=\.[^.]+$), searched in the whole file name: an
\* underscore, two digits, then the final extension (a dot and at least one
\* character, none of them a dot) up to the end.
ANnEndMatches(name) ==
    {u \in 1..(Len(name) - 4) :
        /\ name[u] = "_"
        /\ IsDigit(name[u + 1])
        /\ IsDigit(name[u + 2])
        /\ name[u + 3] = "."
        /\ \A k \in (u + 4)..Len(name) : name[k] # "."}

\* A_NN_ANY_RE = (\d{2})(?!\d), finditer over the stem: the starts of the
\* matches. Two matches never overlap (the second would put a digit right
\* after the first), so finditer yields every one of them, left to right.
ANnAnyMatches(stem) ==
    {u \in 1..(Len(stem) - 1) :
        /\ IsDigit(stem[u])
        /\ IsDigit(stem[u + 1])
        /\ (u + 2 <= Len(stem) => ~IsDigit(stem[u + 2]))}

\* The index of an A file: <<>> when none is derivable (the file is skipped).
ANnOfNoFallback(name) ==
    LET e == ANnEndMatches(name)
    IN  IF e # {} THEN SubSeq(name, Min(e) + 1, Min(e) + 2) ELSE <<>>

ANnOf(name) ==
    LET e == ANnEndMatches(name)
        a == ANnAnyMatches(Stem(name))
    IN  IF e # {} THEN SubSeq(name, Min(e) + 1, Min(e) + 2)
        ELSE IF a = {} THEN <<>>
        ELSE SubSeq(Stem(name), Max(a), Max(a) + 1)

\* \b before and after the one character at position s
WordBoundaryAround(name, s) ==
    /\ (s = 1 \/ ~IsWordChar(name[s - 1]))
    /\ (s = Len(name) \/ ~IsWordChar(name[s + 1]))

\* HM_RE = (?i)(high|middle|\bh\b|\bm\b): the alternative that matches at
\* position s, the first of the four in the order written, "" when none.
HmTokenAt(name, s) ==
    IF MatchesAt(name, s, <<"h", "i", "g", "h">>) THEN "high"
    ELSE IF MatchesAt(name, s, <<"m", "i", "d", "d", "l", "e">>) THEN "middle"
    ELSE IF LowerChar(name[s]) = "h" /\ WordBoundaryAround(name, s) THEN "h"
    ELSE IF LowerChar(name[s]) = "m" /\ WordBoundaryAround(name, s) THEN "m"
    ELSE ""

\* HM_RE.search(name).group(1).lower(): the token of the leftmost match
HmToken(name) ==
    LET ms == {s \in 1..Len(name) : HmTokenAt(name, s) # ""}
    IN  IF ms = {} THEN "" ELSE HmTokenAt(name, Min(ms))

\* val = "H" for high/h, "M" for middle/m, "" (None) without a token
HmValOf(name) ==
    LET token == HmToken(name)
    IN  IF token \in {"high", "h"} THEN "H"
        ELSE IF token \in {"middle", "m"} THEN "M"
        ELSE ""

\* A mapping {NN: "H"|"M"} is a set of pairs <<nn, val>>, one per nn.
HmKeys(mapping) == {e[1] : e \in mapping}

\* mapping.get(nn): "" stands for None
HmGet(mapping, nn) ==
    IF nn \in HmKeys(mapping)
    THEN (CHOOSE e \in mapping : e[1] = nn)[2]
    ELSE ""

\* mapping[nn] = val, unconditionally
HmInsertAlways(mapping, nn, val) ==
    {e \in mapping : e[1] # nn} \cup {<<nn, val>>}

\* if nn not in mapping or val == "H": mapping[nn] = val
HmInsert(mapping, nn, val) ==
    IF nn \notin HmKeys(mapping) \/ val = "H"
    THEN {e \in mapping : e[1] # nn} \cup {<<nn, val>>}
    ELSE mapping

\* One iteration of the scandir loop over the directory entry f.
HmScanEntry(mapping, f) ==
    IF ~f.isFile THEN mapping
    ELSE IF ANnOf(f.name) = <<>> THEN mapping
    ELSE IF HmValOf(f.name) = "" THEN mapping
    ELSE HmInsert(mapping, ANnOf(f.name), HmValOf(f.name))

RECURSIVE HmScan(_, _)
HmScan(mapping, entries) ==
    IF entries = <<>> THEN mapping
    ELSE HmScan(HmScanEntry(mapping, Head(entries)), Tail(entries))

\* directory entries of a set folder
File(name) == [name |-> name, isFile |-> TRUE]

SubDir(name) == [name |-> name, isFile |-> FALSE]

SeqSet(s) == {s[i] : i \in 1..Len(s)}

\* every order of the same entries
Reorderings(entries) ==
    {q \in [1..Len(entries) -> SeqSet(entries)] : SeqSet(q) = SeqSet(entries)}

\* A folder is [isDir, entries]: entries in the order os.scandir yields them.
NoFolder == [isDir |-> FALSE, entries |-> <<>>]

build_hm_index_for_set(folder) ==
    IF ~folder.isDir THEN {} ELSE HmScan({}, folder.entries)

(***************************************************************************)
(* is_date_folder, to_yymmdd, find_a_date_dir                              *)
(***************************************************************************)
\* is_date_folder(name) = bool(re.fullmatch(r"\d{6}|\d{8}", name))
is_date_folder(name) ==
    /\ Len(name) \in {6, 8}
    /\ \A i \in 1..Len(name) : IsDigit(name[i])

\* to_yymmdd(date_folder_name) = date_folder_name[-6:]
to_yymmdd(name) == SubSeq(name, Max({1, Len(name) - 5}), Len(name))

\* digits(s): the digit characters of s, in order
RECURSIVE DigitsOf(_)
DigitsOf(s) ==
    IF s = <<>> THEN <<>>
    ELSE IF IsDigit(Head(s)) THEN <<Head(s)>> \o DigitsOf(Tail(s))
    ELSE DigitsOf(Tail(s))

\* s[-6:]
Last6(s) == IF Len(s) <= 6 THEN s ELSE SubSeq(s, Len(s) - 5, Len(s))

\* Paths of one parent compare as their names do: character by character,
\* a proper prefix first.
RECURSIVE NameLess(_, _)
NameLess(a, b) ==
    IF b = <<>> THEN FALSE
    ELSE IF a = <<>> THEN TRUE
    ELSE IF Head(a) = Head(b) THEN NameLess(Tail(a), Tail(b))
    ELSE Ord(Head(a)) < Ord(Head(b))

\* sorted(paths)[-1]
SortedLast(names) ==
    CHOOSE n \in names : \A o \in names : o = n \/ NameLess(o, n)

\* sorted(paths)[0]
SortedFirst(names) ==
    CHOOSE n \in names : \A o \in names : o = n \/ NameLess(n, o)

\* len(ds) >= 6 and ds[-6:] == target_yymmdd
DateCandidate(name, target) ==
    /\ Len(DigitsOf(name)) >= 6
    /\ Last6(DigitsOf(name)) = target

\* the names of seq, in order, that satisfy the candidate test
RECURSIVE DateCands(_, _)
DateCands(children, target) ==
    IF children = <<>> THEN <<>>
    ELSE (IF Head(children).isDir /\ DateCandidate(Head(children).name, target)
          THEN <<Head(children).name>> ELSE <<>>)
         \o DateCands(Tail(children), target)

\* None
NotFound == <<"None">>

\* aRoot is [isDir, entries]; a missing aRoot (FileNotFoundError) gives None.
\* exact: the candidates named target; yyyymmdd: those with exactly 8 digits.
find_a_date_dir(aRoot, target) ==
    IF ~aRoot.isDir THEN NotFound
    ELSE LET cands    == DateCands(aRoot.entries, target)
             exact    == SelectSeq(cands, LAMBDA n : n = target)
             yyyymmdd == SelectSeq(cands,
                             LAMBDA n : /\ Len(DigitsOf(n)) = 8
                                        /\ Last6(DigitsOf(n)) = target)
         IN  IF cands = <<>> THEN NotFound
             ELSE IF exact # <<>> THEN <<"dir", exact[1]>>
             ELSE IF yyyymmdd # <<>> THEN <<"dir", SortedFirst(SeqSet(yyyymmdd))>>
             ELSE <<"dir", SortedFirst(SeqSet(cands))>>

(***************************************************************************)
(* safe_copy2_atomic                                                       *)
(***************************************************************************)
RETRY_MAX == 3

\* RETRY_BACKOFF_BASE = 0.15 seconds, in hundredths of a second
RETRY_BACKOFF_BASE == 15

\* A file of the call: absent, a copy of the first `bytes` bytes of the
\* source, or a stale file left at the temporary path before the call.
Absent == [kind |-> "absent", bytes |-> 0]

Stale == [kind |-> "stale", bytes |-> 0]

CopyOf(n) == [kind |-> "copy", bytes |-> n]

\* The state of a call: the statement about to run (pc), the attempt number,
\* the size of the source now and at the call, the temporary (.part) and the
\* final path, whether dir_fd was opened, the stage at which each failed
\* attempt failed, whether an unlink of the temporary file has failed, the
\* fsync calls of the current attempt whose error was swallowed, and the
\* time.sleep calls made so far.
CopyIdle ==
    [pc |-> "idle", attempt |-> 0, src |-> 0, src0 |-> 0, tmp |-> Absent,
     dst |-> Absent, dirfd |-> FALSE, faults |-> <<>>, unlinkFailed |-> FALSE,
     syncFailed |-> {}, slept |-> <<>>]

CopyCall(srcBytes, tmp0, dst0) ==
    [pc |-> "open_dir", attempt |-> 1, src |-> srcBytes, src0 |-> srcBytes,
     tmp |-> tmp0, dst |-> dst0, dirfd |-> FALSE, faults |-> <<>>,
     unlinkFailed |-> FALSE, syncFailed |-> {}, slept |-> <<>>]

Raise(c, stage) == [c EXCEPT !.pc = "except", !.faults = Append(@, stage)]

\* dir_fd = os.open(dst_dir): opened, or None when the open raises
SuccOpenDir(c) ==
    {[c EXCEPT !.pc = "attempt", !.dirfd = b] : b \in BOOLEAN}

\* if tmp.exists(): tmp.unlink(), an error of the unlink swallowed
SuccAttempt(c) ==
    LET a == [c EXCEPT !.pc = "copy", !.syncFailed = {}]
    IN  IF c.tmp.kind = "absent" THEN {a}
        ELSE {[a EXCEPT !.tmp = Absent], [a EXCEPT !.unlinkFailed = TRUE]}

\* shutil.copy2(src, tmp): returns with the whole source copied, or with
\* fewer bytes at tmp than the source holds when its size is read; or raises
\* before it has opened tmp, after a partial write, or after the data was
\* written (the metadata copy failed).
SuccCopy(c) ==
    {[c EXCEPT !.pc = "verify", !.tmp = CopyOf(c.src)]}
    \cup {[c EXCEPT !.pc = "verify", !.tmp = CopyOf(k)] : k \in 0..(c.src - 1)}
    \cup {Raise(c, "copy_nowrite")}
    \cup {Raise([c EXCEPT !.tmp = CopyOf(k)], "copy_partial") :
            k \in 0..(c.src - 1)}
    \cup {Raise([c EXCEPT !.tmp = CopyOf(c.src)], "copy_meta")}

\* no size check at all
SuccVerifyNoCheck(c) == {[c EXCEPT !.pc = "fsync_tmp"]}

\* if VERIFY_SIZE and src.stat().st_size != tmp.stat().st_size: raise IOError
SuccVerify(c) ==
    IF c.src # c.tmp.bytes THEN {Raise(c, "verify")}
    ELSE {[c EXCEPT !.pc = "fsync_tmp"]}

\* open(tmp) and os.fsync of it: done, or its error swallowed (pass)
SuccFsyncTmp(c) ==
    {[c EXCEPT !.pc = "replace"],
     [c EXCEPT !.pc = "replace", !.syncFailed = @ \cup {"fsync_tmp"}]}

\* os.replace(tmp, dst_final): atomic, all or nothing
SuccReplace(c) ==
    {[c EXCEPT !.pc = "fsync_dir", !.dst = c.tmp, !.tmp = Absent],
     Raise(c, "replace")}

\* os.fsync(dir_fd) when dir_fd was opened: done, or its error swallowed
\* (pass); return True
SuccFsyncDir(c) ==
    IF ~c.dirfd THEN {[c EXCEPT !.pc = "ret_true"]}
    ELSE {[c EXCEPT !.pc = "ret_true"],
          [c EXCEPT !.pc = "ret_true", !.syncFailed = @ \cup {"fsync_dir"}]}

\* the last attempt's handler without the removal of the temporary file
SuccExceptNoCleanup(c) ==
    IF c.attempt < RETRY_MAX
    THEN {[c EXCEPT !.pc = "attempt", !.attempt = @ + 1,
                    !.slept = Append(@, RETRY_BACKOFF_BASE * c.attempt)]}
    ELSE {[c EXCEPT !.pc = "ret_false"]}

\* except Exception: time.sleep(RETRY_BACKOFF_BASE * attempt) and go to the
\* next attempt while attempt < RETRY_MAX; on the last attempt remove tmp if
\* it exists (an error of the removal swallowed) and return False
SuccExcept(c) ==
    IF c.attempt < RETRY_MAX
    THEN {[c EXCEPT !.pc = "attempt", !.attempt = @ + 1,
                    !.slept = Append(@, RETRY_BACKOFF_BASE * c.attempt)]}
    ELSE IF c.tmp.kind = "absent" THEN {[c EXCEPT !.pc = "ret_false"]}
    ELSE {[c EXCEPT !.pc = "ret_false", !.tmp = Absent],
          [c EXCEPT !.pc = "ret_false", !.unlinkFailed = TRUE]}

(***************************************************************************)
(* list_all_b_files                                                        *)
(***************************************************************************)
\* str.casefold() of a name
Casefold(name) == [i \in 1..Len(name) |-> LowerChar(name[i])]

Str_single == <<"s", "i", "n", "g", "l", "e">>

Str_Single == <<"S", "i", "n", "g", "l", "e">>

\* VALID_STOP_RE, VALID_SET_RE = ^\d{4}$
IsFourDigits(name) == Len(name) = 4 /\ \A i \in 1..4 : IsDigit(name[i])

\* A directory tree is a sequence of entries [name, isDir, children] in the
\* order os.scandir yields them; a set folder's children are
\* [name, isFile].

\* _find_child_dir_casefold(parent, name_cf): the first child directory whose
\* casefolded name is name_cf, as a one-element sequence; <<>> for None
find_child_dir_casefold(entries, name_cf) ==
    LET hits == SelectSeq(entries,
                    LAMBDA d : d.isDir /\ Casefold(d.name) = name_cf)
    IN  IF hits = <<>> THEN <<>> ELSE <<hits[1]>>

\* A record of the walker: (mode, stop, set_no, file_path), the path given by
\* the names of its top folder, set folder and file. stop is <<>> for None.
Record(mode, stop, set_no, top, name) ==
    [mode |-> mode, stop |-> stop, set_no |-> set_no, top |-> top,
     name |-> name]

\* the scan of a set folder without the is_file() test
RECURSIVE FilesOfSetAnyEntry(_, _, _, _, _)
FilesOfSetAnyEntry(mode, stop, set_no, top, children) ==
    IF children = <<>> THEN <<>>
    ELSE <<Record(mode, stop, set_no, top, Head(children).name)>>
         \o FilesOfSetAnyEntry(mode, stop, set_no, top, Tail(children))

RECURSIVE FilesOfSet(_, _, _, _, _)
FilesOfSet(mode, stop, set_no, top, children) ==
    IF children = <<>> THEN <<>>
    ELSE (IF Head(children).isFile
          THEN <<Record(mode, stop, set_no, top, Head(children).name)>>
          ELSE <<>>)
         \o FilesOfSet(mode, stop, set_no, top, Tail(children))

\* the sets of one Single or stop folder: its 4-digit subdirectories
RECURSIVE FilesOfSets(_, _, _, _)
FilesOfSets(mode, stop, top, sets) ==
    IF sets = <<>> THEN <<>>
    ELSE (IF Head(sets).isDir /\ IsFourDigits(Head(sets).name)
          THEN FilesOfSet(mode, stop, Head(sets).name, top,
                          Head(sets).children)
          ELSE <<>>)
         \o FilesOfSets(mode, stop, top, Tail(sets))

RECURSIVE FilesOfStops(_)
FilesOfStops(tops) ==
    IF tops = <<>> THEN <<>>
    ELSE (IF /\ Head(tops).isDir
             /\ Casefold(Head(tops).name) # Str_single
             /\ IsFourDigits(Head(tops).name)
          THEN FilesOfSets("multi", Head(tops).name, Head(tops).name,
                           Head(tops).children)
          ELSE <<>>)
         \o FilesOfStops(Tail(tops))

\* list(list_all_b_files(b_date)): the Single branch first, then the stops
list_all_b_files(bTree) ==
    LET single == find_child_dir_casefold(bTree, Str_single)
    IN  (IF single # <<>>
         THEN FilesOfSets("single", <<>>, single[1].name, single[1].children)
         ELSE <<>>)
        \o FilesOfStops(bTree)

(***************************************************************************)
(* Name composition and ensure_unique_path_fast                            *)
(***************************************************************************)
DigitSeq == <<"0", "1", "2", "3", "4", "5", "6", "7", "8", "9">>

\* str(i) of an f-string
RECURSIVE Decimal(_)
Decimal(i) ==
    IF i < 10 THEN <<DigitSeq[i + 1]>>
    ELSE Decimal(i \div 10) \o <<DigitSeq[(i % 10) + 1]>>

\* new_name with the set put before the run key
ComposeNameSwapped(yymmdd, rec, base, hm, nn, ext) ==
    rec.set_no \o <<"-">> \o yymmdd \o <<"-">>
    \o base \o <<"_", hm, "_">> \o nn \o ext

\* new_name = f"{yymmdd}-{set_no}-{base}_{hm}_{nn}{ext}" for single,
\*            f"{yymmdd}-{stop}-{set_no}-{base}_{hm}_{nn}{ext}" for multi
ComposeName(yymmdd, rec, base, hm, nn, ext) ==
    IF rec.mode = "single"
    THEN yymmdd \o <<"-">> \o rec.set_no \o <<"-">>
         \o base \o <<"_", hm, "_">> \o nn \o ext
    ELSE yymmdd \o <<"-">> \o rec.stop \o <<"-">> \o rec.set_no \o <<"-">>
         \o base \o <<"_", hm, "_">> \o nn \o ext

\* The file system the worker writes: a set of files [dir, name, data,
\* whole]. dir is <<"out", nn>> for out_root/yymmdd/nn, <<"outk">> for
\* out_root/yymmdd, <<"b", top, set>> for a set folder of the B tree; data
\* names whose bytes the file holds (the path of the B file it came from, or
\* "old" for a file that was there before the run); whole is FALSE for a
\* partially written file.
FileAt(fs, dir, name) == {f \in fs : f.dir = dir /\ f.name = name}

\* Path.exists()
Exists(fs, dir, name) == FileAt(fs, dir, name) # {}

\* parent / f"{stem}_dup{i}{suffix}"
DupName(name, i) ==
    Stem(name) \o <<"_", "d", "u", "p">> \o Decimal(i) \o Suffix(name)

\* the while True loop of ensure_unique_path_fast from candidate i on
RECURSIVE FirstFreeDup(_, _, _, _)
FirstFreeDup(fs, dir, name, i) ==
    IF ~Exists(fs, dir, DupName(name, i)) THEN DupName(name, i)
    ELSE FirstFreeDup(fs, dir, name, i + 1)

\* a dest that is returned without the existence check
ensure_unique_path_unchecked(fs, dir, name) == name

\* ensure_unique_path_fast(dest), dest = dir / name: the name of the result
ensure_unique_path_fast(fs, dir, name) ==
    IF ~Exists(fs, dir, name) THEN name
    ELSE FirstFreeDup(fs, dir, name, 1)


(***************************************************************************)
(* The transfer disciplines                                                *)
(***************************************************************************)
CopySucc(c) ==
    CASE c.pc = "open_dir"  -> SuccOpenDir(c)
      [] c.pc = "attempt"   -> SuccAttempt(c)
      [] c.pc = "copy"      -> SuccCopy(c)
      [] c.pc = "verify"    -> SuccVerify(c)
      [] c.pc = "fsync_tmp" -> SuccFsyncTmp(c)
      [] c.pc = "replace"   -> SuccReplace(c)
      [] c.pc = "fsync_dir" -> SuccFsyncDir(c)
      [] c.pc = "except"    -> SuccExcept(c)
      [] OTHER              -> {}

\* what a call leaves behind: its result and the two paths
CopyResult(c) == [ok |-> c.pc = "ret_true", tmp |-> c.tmp, dst |-> c.dst]

\* the states in which the executions of safe_copy2_atomic from the state c
\* return
RECURSIVE CopyReturns(_)
CopyReturns(c) ==
    IF c.pc \in {"ret_true", "ret_false"} THEN {c}
    ELSE UNION {CopyReturns(d) : d \in CopySucc(c)}

\* the results of every execution of safe_copy2_atomic from the state c
CopyResults(c) == {CopyResult(d) : d \in CopyReturns(c)}

\* The B files of the model all hold this many bytes.
BFileSize == 1

\* safe_copy2_atomic(b_file, dest) with no file, or a stale file, at
\* dest + ".part"
SafeCopyResultsFresh == CopyResults(CopyCall(BFileSize, Absent, Absent))

SafeCopyResultsStale == CopyResults(CopyCall(BFileSize, Stale, Absent))

\* One try of fast_rename_or_move: os.replace when _same_device holds, else
\* shutil.move (a copy to dest, then the removal of the source). It succeeds,
\* or raises with errno EBUSY/EACCES ("busy") or another error ("error");
\* os.replace changes nothing when it raises; shutil.move may have written
\* dest in part, or in full with the source still in place. dst is "absent",
\* "partial" or "whole".
MoveTry(same, dst) ==
    {[res |-> "ok", dst |-> "whole"]}
    \cup {[res |-> r, dst |-> dst] : r \in {"busy", "error"}}
    \cup (IF same THEN {}
          ELSE {[res |-> r, dst |-> d] :
                  r \in {"busy", "error"}, d \in {"partial", "whole"}})

\* time.sleep(0.05) before the second try, in hundredths of a second
MOVE_RETRY_SLEEP == 5

\* the call a try makes: os.replace when _same_device(src, dest.parent)
\* returned True, else shutil.move
MoveHow(same) == IF same THEN "os.replace" ELSE "shutil.move"

\* a try as the call it made and how that call ended
TryOf(same, a) == [how |-> MoveHow(same), res |-> a.res]

\* fast_rename_or_move without the second try
fast_rename_or_move_once(same) ==
    {[ok |-> a.res = "ok", dst |-> a.dst, tries |-> <<TryOf(same, a)>>,
      slept |-> <<>>] : a \in MoveTry(same, "absent")}

\* fast_rename_or_move(src, dest), every execution with the tries it made and
\* the sleeps between them: True when the first try succeeds; False when it
\* raised anything but EBUSY/EACCES; after EBUSY/EACCES one sleep and one
\* further try, whose outcome is the result
fast_rename_or_move(same) ==
    LET first == MoveTry(same, "absent")
    IN  {[ok |-> TRUE, dst |-> a.dst, tries |-> <<TryOf(same, a)>>,
          slept |-> <<>>] : a \in {x \in first : x.res = "ok"}}
        \cup {[ok |-> FALSE, dst |-> a.dst, tries |-> <<TryOf(same, a)>>,
               slept |-> <<>>] : a \in {x \in first : x.res = "error"}}
        \cup UNION {{[ok |-> b.res = "ok", dst |-> b.dst,
                       tries |-> <<TryOf(same, a), TryOf(same, b)>>,
                       slept |-> <<MOVE_RETRY_SLEEP>>] :
                       b \in MoveTry(same, a.dst)} :
                    a \in {x \in first : x.res = "busy"}}

\* what the worker sees of a call: its result and the destination
MoveResults(same) ==
    {[ok |-> r.ok, dst |-> r.dst] : r \in fast_rename_or_move(same)}

\* os.replace(b_file, dest) in place, b_file.rename(dest) of newapp3, inside
\* try / except: one call, which renames or raises (EBUSY/EACCES or another
\* error) with nothing changed
RenameRuns ==
    {[ok |-> r = "ok", dst |-> IF r = "ok" THEN "whole" ELSE "absent",
      tries |-> <<[how |-> "os.replace", res |-> r]>>] :
        r \in {"ok", "busy", "error"}}

RenameResults == {[ok |-> r.ok, dst |-> r.dst] : r \in RenameRuns}

\* A transfer of one record as the worker sees it: the result, the number of
\* tries made, and whether the first try failed with a transient error (for
\* safe_copy2_atomic, which does not look at the error, with any error).
TransferRuns(how, same) ==
    CASE how = "copy" ->
           {[ok |-> c.pc = "ret_true", tries |-> c.attempt,
             transient |-> c.faults # <<>>] :
               c \in CopyReturns(CopyCall(BFileSize, Absent, Absent))}
      [] how = "move" ->
           {[ok |-> r.ok, tries |-> Len(r.tries),
             transient |-> r.tries[1].res = "busy"] :
               r \in fast_rename_or_move(same)}
      [] OTHER ->
           {[ok |-> r.ok, tries |-> Len(r.tries),
             transient |-> r.tries[1].res = "busy"] : r \in RenameRuns}

(***************************************************************************)
(* The A tree of the run and the files of the B tree                        *)
(***************************************************************************)
Str_0001 == <<"0", "0", "0", "1">>

Str_0002 == <<"0", "0", "0", "2">>

Str_0003 == <<"0", "0", "0", "3">>

Str_0004 == <<"0", "0", "0", "4">>

Str_0012 == <<"0", "0", "1", "2">>

Str_01 == <<"0", "1">>

Str_02 == <<"0", "2">>

Str_05 == <<"0", "5">>

Str_raw_High_01_jpg == <<"r", "a", "w", "_", "H", "i", "g", "h", "_", "0", "1", ".", "j", "p", "g">>

Str_raw_Middle_02_jpg == <<"r", "a", "w", "_", "M", "i", "d", "d", "l", "e", "_", "0", "2", ".", "j", "p", "g">>

Str_lumi_01_jpg == <<"l", "u", "m", "i", "_", "0", "1", ".", "j", "p", "g">>

Str_lumi_02_jpg == <<"l", "u", "m", "i", "_", "0", "2", ".", "j", "p", "g">>

Str_lumi__01_jpg == <<"l", "u", "m", "i", "_", "_", "0", "1", ".", "j", "p", "g">>

Str_lumi_09_jpg == <<"l", "u", "m", "i", "_", "0", "9", ".", "j", "p", "g">>

Str_x_01_jpg == <<"x", "_", "0", "1", ".", "j", "p", "g">>

Str_x_05_jpg == <<"x", "_", "0", "5", ".", "j", "p", "g">>

Str_y_05_jpg == <<"y", "_", "0", "5", ".", "j", "p", "g">>

\* a set folder of the A tree; os.scandir raises PermissionError on a
\* folder that is not readable
ASetDir(name, readable, entries) ==
    [name |-> name, isDir |-> TRUE, readable |-> readable,
     children |-> entries]

TopDir(name, sets) == [name |-> name, isDir |-> TRUE, children |-> sets]

\* The A date folder of the run: Single/0001 with a High 01 and a Middle 02
\* file, Single/0002 with no indexable file, Single/0004 unreadable, and
\* 0012/0004 with a High 05 file; Single/0003 and 0012/0003 are missing.
ADate ==
    <<TopDir(Str_Single,
        <<ASetDir(Str_0001, TRUE,
             <<File(Str_raw_High_01_jpg), File(Str_raw_Middle_02_jpg)>>),
          ASetDir(Str_0002, TRUE, <<File(<<"n", "o", "t", "e", ".", "t", "x", "t">>)>>),
          ASetDir(Str_0004, FALSE, <<File(Str_raw_High_01_jpg)>>)>>),
      TopDir(Str_0012,
        <<ASetDir(Str_0004, TRUE, <<File(<<"s", "-", "h", "-", "0", "5", ".", "j", "p", "g">>)>>)>>)>>

\* parent / name as a directory: the child directory of that name, or a
\* folder that is no directory
ChildDir(entries, name) ==
    LET hits == SelectSeq(entries, LAMBDA d : d.isDir /\ d.name = name)
    IN  IF hits = <<>>
        THEN [name |-> name, isDir |-> FALSE, readable |-> FALSE,
              children |-> <<>>]
        ELSE hits[1]

\* a_set_path of a record: a_single_dir / set_no, a_single_dir found by
\* casefold or else a_date / "Single"; a_date / (stop or "0000") / set_no
ASetPath(rec) ==
    IF rec.mode = "single"
    THEN LET found == find_child_dir_casefold(ADate, Str_single)
             single == IF found # <<>> THEN found[1]
                       ELSE ChildDir(ADate, Str_Single)
         IN  ChildDir(single.children, rec.set_no)
    ELSE ChildDir(ChildDir(ADate, IF rec.stop = <<>>
                                  THEN <<"0", "0", "0", "0">>
                                  ELSE rec.stop).children,
                  rec.set_no)

\* cache_key
CacheKey(rec) == <<rec.mode, rec.stop, rec.set_no>>

Str_noindex_jpg == <<"n", "o", "i", "n", "d", "e", "x", ".", "j", "p", "g">>

\* A file of the B tree, by the names of its top folder, set folder and file
BFile(top, set, name) == [top |-> top, set |-> set, name |-> name]

\* Files the B date folder may hold
BFilePool ==
    {BFile(Str_Single, Str_0001, Str_lumi_01_jpg),
     BFile(Str_Single, Str_0001, Str_lumi_02_jpg),
     BFile(Str_Single, Str_0001, Str_lumi__01_jpg),
     BFile(Str_Single, Str_0001, Str_noindex_jpg),
     BFile(Str_Single, Str_0001, Str_lumi_09_jpg),
     BFile(Str_Single, Str_0002, Str_x_01_jpg),
     BFile(Str_Single, Str_0004, Str_x_01_jpg),
     BFile(Str_0012, Str_0003, Str_x_05_jpg),
     BFile(Str_0012, Str_0004, Str_y_05_jpg)}

\* the distinct elements of a sequence, in the order of their first
\* occurrence
RECURSIVE Distinct(_)
Distinct(q) ==
    IF q = <<>> THEN <<>>
    ELSE LET r == Distinct(SubSeq(q, 1, Len(q) - 1))
         IN  IF q[Len(q)] \in SeqSet(r) THEN r ELSE Append(r, q[Len(q)])

Map(q, F(_)) == [i \in 1..Len(q) |-> F(q[i])]

\* The B date folder that holds the files of sel: its top folders, their set
\* folders and their files, each level in the order in which sel names them
\* (the order os.scandir yields them in).
BTreeOf(sel) ==
    LET tops == Distinct(Map(sel, LAMBDA f : f.top))
        setsOf(top) ==
            Distinct(Map(SelectSeq(sel, LAMBDA f : f.top = top),
                         LAMBDA f : f.set))
        filesOf(top, set) ==
            Map(SelectSeq(sel, LAMBDA f : f.top = top /\ f.set = set),
                LAMBDA f : File(f.name))
    IN  Map(tops, LAMBDA top :
            TopDir(top, Map(setsOf(top), LAMBDA set :
                [name |-> set, isDir |-> TRUE,
                 children |-> filesOf(top, set)])))

\* the directory and the path of a record's B file
BDirOf(rec) == <<"b", rec.top, rec.set_no>>

SrcPath(rec) == <<BDirOf(rec), rec.name>>


(***************************************************************************)
(* CopySpec: one call of safe_copy2_atomic, a statement per step            *)
(***************************************************************************)
MaxFileSize == 2

\* The callers pass a destination that ensure_unique_path_fast found absent;
\* a .part file of an earlier, interrupted run may be there.
CopyInit ==
    /\ FnIdle
    /\ WorkerIdle
    /\ UiIdle
    /\ \E n \in 0..MaxFileSize, t \in {Absent, Stale} :
          cp = CopyCall(n, t, Absent)

CopyOpenDir ==
    /\ cp.pc = "open_dir"
    /\ cp' \in SuccOpenDir(cp)
    /\ UNCHANGED <<fvars, ui, wvars>>

CopyAttempt ==
    /\ cp.pc = "attempt"
    /\ cp' \in SuccAttempt(cp)
    /\ UNCHANGED <<fvars, ui, wvars>>

CopyCopy2 ==
    /\ cp.pc = "copy"
    /\ cp' \in SuccCopy(cp)
    /\ UNCHANGED <<fvars, ui, wvars>>

CopyVerify ==
    /\ cp.pc = "verify"
    /\ cp' \in SuccVerify(cp)
    /\ UNCHANGED <<fvars, ui, wvars>>

CopyFsyncTmp ==
    /\ cp.pc = "fsync_tmp"
    /\ cp' \in SuccFsyncTmp(cp)
    /\ UNCHANGED <<fvars, ui, wvars>>

CopyReplace ==
    /\ cp.pc = "replace"
    /\ cp' \in SuccReplace(cp)
    /\ UNCHANGED <<fvars, ui, wvars>>

CopyFsyncDir ==
    /\ cp.pc = "fsync_dir"
    /\ cp' \in SuccFsyncDir(cp)
    /\ UNCHANGED <<fvars, ui, wvars>>

CopyExcept ==
    /\ cp.pc = "except"
    /\ cp' \in SuccExcept(cp)
    /\ UNCHANGED <<fvars, ui, wvars>>

CopyNext ==
    \/ CopyOpenDir
    \/ CopyAttempt
    \/ CopyCopy2
    \/ CopyVerify
    \/ CopyFsyncTmp
    \/ CopyReplace
    \/ CopyFsyncDir
    \/ CopyExcept

CopySpec == CopyInit /\ [][CopyNext]_vars

CopyReturned == cp.pc \in {"ret_true", "ret_false"}

\* every attempt of the call failed after a partial write and before or at
\* the size verification, and nothing else of the call failed
AllAttemptsFailedMidCopy ==
    /\ cp.pc = "ret_false"
    /\ \A i \in 1..Len(cp.faults) : cp.faults[i] \in {"copy_partial", "verify"}
    /\ ~cp.unlinkFailed

SyncFailedInCompletedAttempt == cp.pc = "ret_true" /\ cp.syncFailed # {}

\* C11: in safe_copy2_atomic a failure at any stage of an attempt (copy,
\* size verification, fsync of the temporary file, publish, fsync of the
\* directory) ends the attempt and restarts the sequence, so the attempt
\* from which the call returns True is one in which no stage failed.
C11_FailedStageRestartsAttempt == ~SyncFailedInCompletedAttempt

\* C11: the call has returned True from its first attempt although the fsync
\* of the temporary file and the fsync of the directory both failed.
C11_SyncFailureReturnsTrue ==
    /\ SyncFailedInCompletedAttempt
    /\ cp.syncFailed = {"fsync_tmp", "fsync_dir"}
    /\ cp.attempt = 1
    /\ cp.faults = <<>>
    /\ cp.dst = CopyOf(cp.src0)

\* C11, the rest of the policy: every other failure is followed by a new
\* attempt that starts by removing the temporary file; at most RETRY_MAX
\* attempts are made; the wait before attempt n + 1 is RETRY_BACKOFF_BASE *
\* n; False is returned only after the RETRY_MAX-th failed attempt.
C11_RetryPolicyOtherwise ==
    /\ cp.attempt \in 1..RETRY_MAX
    /\ Len(cp.faults) = (IF cp.pc \in {"except", "ret_false"}
                          THEN cp.attempt ELSE cp.attempt - 1)
    /\ cp.slept = [n \in 1..Len(cp.slept) |-> RETRY_BACKOFF_BASE * n]
    /\ Len(cp.slept) = (IF cp.pc = "ret_false"
                         THEN RETRY_MAX - 1
                         ELSE IF cp.pc = "except" THEN cp.attempt - 1
                         ELSE Len(cp.faults))
    /\ cp.pc = "ret_false" => cp.attempt = RETRY_MAX
    /\ cp.pc = "copy" /\ ~cp.unlinkFailed => cp.tmp = Absent

\* the order of the statements of safe_copy2_atomic
CopyOrder ==
    {<<"open_dir", "attempt">>, <<"attempt", "copy">>, <<"copy", "verify">>,
     <<"verify", "fsync_tmp">>, <<"fsync_tmp", "replace">>,
     <<"replace", "fsync_dir">>, <<"fsync_dir", "ret_true">>,
     <<"copy", "except">>, <<"verify", "except">>, <<"replace", "except">>,
     <<"except", "attempt">>, <<"except", "ret_false">>}

C21_State ==
    cp.pc # "idle" =>
        /\ cp.dst \in {Absent, CopyOf(cp.src)}
        /\ cp.dst # Absent => cp.pc \in {"fsync_dir", "ret_true"}
        /\ cp.pc \in {"fsync_tmp", "replace"} => cp.tmp = CopyOf(cp.src)
        /\ cp.pc = "ret_true" => cp.dst = CopyOf(cp.src) /\ cp.tmp = Absent

C21_Step ==
    /\ cp'.pc # cp.pc => <<cp.pc, cp'.pc>> \in CopyOrder
    /\ (<<cp.pc, cp'.pc>> = <<"verify", "fsync_tmp">>) =>
          cp.tmp = CopyOf(cp.src) /\ cp'.tmp = cp.tmp
    /\ cp'.dst # cp.dst =>
          /\ cp.pc = "replace"
          /\ cp'.pc = "fsync_dir"
          /\ cp'.dst = cp.tmp
          /\ cp'.tmp = Absent
    /\ cp'.attempt # cp.attempt =>
          cp.pc = "except" /\ cp'.pc = "attempt" /\ cp.dst = Absent

\* C21: in an attempt of safe_copy2_atomic the statements run in the order
\* copy to the .part file, size verification, fsync of the .part file,
\* os.replace to the final name, fsync of the directory; the final name
\* appears only by the os.replace of a .part file whose size verification
\* passed in the same attempt, so a destination that exists has the size of
\* the source, and a file with fewer bytes exists only as the .part file.
C21_AtomicVisibilityOrder == []C21_State /\ [][C21_Step]_vars

\* C21 witness: the first attempt wrote a part of the file, the second one
\* failed the size verification, the third one published the whole file.
C21_Witness ==
    /\ cp.pc = "ret_true"
    /\ cp.faults = <<"copy_partial", "verify">>
    /\ cp.src = 2
    /\ cp.dst = CopyOf(2)
    /\ cp.tmp = Absent

(***************************************************************************)
(* FnSpec: the pure helpers applied to inputs drawn from bounded sets       *)
(***************************************************************************)
MaxNameLen == 5

MaxFolderFiles == 3

MaxChildren == 3

\* sequences of at most n distinct elements of S: the orders in which a
\* directory scan can yield some of the entries of S
DistinctSeqs(S, n) ==
    UNION {{q \in [1..k -> S] : \A i, j \in 1..k : i # j => q[i] # q[j]} :
           k \in 0..n}

ParseAlphabet == {"a", "_", "1", "."}

Str_lumi_13_jpg == <<"l", "u", "m", "i", "_", "1", "3", ".", "j", "p", "g">>

\* B file names: every name of at most MaxNameLen characters over the
\* alphabet, and the two names of the specification's examples
ParseInputs ==
    UNION {[1..k -> ParseAlphabet] : k \in 1..MaxNameLen}
    \cup {Str_lumi_13_jpg, Str_noindex_jpg}

\* B file names given to a rename-in-place run: those given to the parser,
\* and one without extension whose base holds an index and a dot
RenameInputs == ParseInputs \cup {<<"_", "1", "1", ".", "_", "1", "1", ".">>}

\* the mode of the record and the tag of its index
RenameCases == {<<"single", "H">>, <<"multi", "M">>}

Str_img_high_07_jpg == <<"i", "m", "g", "_", "h", "i", "g", "h", "_", "0", "7", ".", "j", "p", "g">>

Str_img_middle_07_jpg == <<"i", "m", "g", "_", "m", "i", "d", "d", "l", "e", "_", "0", "7", ".", "j", "p", "g">>

Str_07 == <<"0", "7">>

Str_Middle_High_07_jpg == <<"M", "i", "d", "d", "l", "e", "_", "H", "i", "g", "h", "_", "0", "7", ".", "j", "p", "g">>

Str_High_Middle_07_jpg == <<"H", "i", "g", "h", "_", "M", "i", "d", "d", "l", "e", "_", "0", "7", ".", "j", "p", "g">>

\* Entries an A set folder may hold
HmEntryPool ==
    {File(Str_img_high_07_jpg),
     File(Str_img_middle_07_jpg),
     File(<<"I", "M", "G", "_", "M", "i", "d", "d", "l", "e", "_", "0", "7", ".", "p", "n", "g">>),
     File(<<"m", "-", "0", "2", ".", "j", "p", "g">>),
     File(<<"h", "i", "g", "h", "0", "2">>),
     File(<<"x", "_", "H", "_", "0", "7", ".", "j", "p", "g">>),
     File(<<"i", "m", "g", "_", "0", "7", ".", "j", "p", "g">>),
     File(<<"h", "i", "g", "h", ".", "t", "x", "t">>),
     File(<<"H", "-", "a", "_", "1", "2", "3", ".", "j", "p", "g">>),
     File(Str_Middle_High_07_jpg),
     File(Str_High_Middle_07_jpg),
     SubDir(<<"h", "i", "g", "h", "_", "0", "7">>)}

HmInputs ==
    {NoFolder}
    \cup {[isDir |-> TRUE, entries |-> q] :
          q \in DistinctSeqs(HmEntryPool, MaxFolderFiles)}

Dir(name) == [name |-> name, isDir |-> TRUE]

NotDir(name) == [name |-> name, isDir |-> FALSE]

Str_250527 == <<"2", "5", "0", "5", "2", "7">>

Str_250528 == <<"2", "5", "0", "5", "2", "8">>

Str_20250527_raw == <<"2", "0", "2", "5", "0", "5", "2", "7", "_", "r", "a", "w">>

Str_other_250527 == <<"o", "t", "h", "e", "r", "_", "2", "5", "0", "5", "2", "7">>

\* Children an A root may hold
DateEntryPool ==
    {Dir(Str_250527),
     Dir(Str_20250527_raw),
     Dir(Str_other_250527),
     Dir(<<"2", "0", "2", "5", "0", "5", "2", "7">>),
     Dir(<<"2", "0", "2", "5", "-", "0", "5", "-", "2", "7">>),
     Dir(<<"A", "2", "0", "2", "5", "0", "5", "2", "7">>),
     Dir(<<"1", "2", "5", "0", "5", "2", "7">>),
     Dir(<<"5", "0", "5", "2", "7">>),
     Dir(Str_250528),
     Dir(<<"r", "a", "w">>),
     NotDir(<<"2", "5", "0", "5", "2", "7", ".", "t", "x", "t">>)}

DateTargets == {Str_250527, Str_250528}

DateInputs ==
    {<<NoFolder, k>> : k \in DateTargets}
    \cup {<<[isDir |-> TRUE, entries |-> q], k>> :
          q \in DistinctSeqs(DateEntryPool, MaxChildren), k \in DateTargets}

\* The B date folders list_all_b_files is applied to. A set folder or a
\* regular file of a top folder: a 4-digit set with a file and a
\* subdirectory, a 4-digit set with two files, a 3-digit folder with a file,
\* a regular file with a 4-digit name.
MaxTops == 2

Str_a_jpg == <<"a", ".", "j", "p", "g">>

Str_b_jpg == <<"b", ".", "j", "p", "g">>

Str_SINGLE == <<"S", "I", "N", "G", "L", "E">>

Str_001 == <<"0", "0", "1">>

Str_misc == <<"m", "i", "s", "c">>

WalkSetLists ==
    {<<>>,
     <<[name |-> Str_0001, isDir |-> TRUE,
        children |-> <<File(Str_a_jpg), SubDir(Str_misc)>>]>>,
     <<[name |-> Str_001, isDir |-> TRUE, children |-> <<File(Str_a_jpg)>>],
       [name |-> Str_0002, isDir |-> TRUE,
        children |-> <<File(Str_b_jpg), File(Str_a_jpg)>>]>>,
     <<[name |-> Str_0003, isDir |-> FALSE, children |-> <<>>],
       [name |-> Str_0001, isDir |-> TRUE, children |-> <<File(Str_b_jpg)>>]>>}

\* The entries of the B date folder: folders named Single, SINGLE, single,
\* 0012, 0001, 001 and misc over each of the lists above, and regular files
\* named 0012 and single.
WalkTops ==
    {TopDir(n, sets) :
        n \in {Str_Single, Str_SINGLE, Str_single, Str_0012, Str_0001,
               Str_001, Str_misc},
        sets \in WalkSetLists}
    \cup {[name |-> n, isDir |-> FALSE, children |-> <<>>] :
            n \in {Str_0012, Str_single}}

\* the scans of a folder that holds at most MaxTops of these entries, no two
\* with one name
WalkInputs ==
    {q \in DistinctSeqs(WalkTops, MaxTops) :
        \A i, j \in 1..Len(q) : i # j => q[i].name # q[j].name}

\* The names is_date_folder and to_yymmdd are applied to: the first n
\* characters of 2025052712, whole or with one character replaced by a
\* letter, by a separator or by a digit outside ASCII.
MaxDateNameLen == 9

Str_2025052712 == <<"2", "0", "2", "5", "0", "5", "2", "7", "1", "2">>

DateNameInputs ==
    LET cut(n) == SubSeq(Str_2025052712, 1, n)
    IN  {cut(n) : n \in 0..MaxDateNameLen}
        \cup {[cut(n) EXCEPT ![k] = c] :
                n \in 1..MaxDateNameLen, k \in 1..MaxDateNameLen,
                c \in {"x", "-", "U+0663"}}

FnInit ==
    /\ cp = CopyIdle
    /\ WorkerIdle
    /\ UiIdle
    /\ fnCall \in ({<<"parse", n>> : n \in ParseInputs}
                   \cup {<<"hm", f>> : f \in HmInputs}
                   \cup {<<"date", d[1], d[2]>> : d \in DateInputs}
                   \cup {<<"move", same>> : same \in BOOLEAN}
                   \cup {<<"date_name", n>> : n \in DateNameInputs}
                   \cup {<<"walk", t>> : t \in WalkInputs}
                   \cup {<<"transfer", how, same>> :
                            how \in {"copy", "move", "inplace", "rename"},
                            same \in BOOLEAN}
                   \cup {<<"rename", n, c[1], c[2], taken>> :
                            n \in RenameInputs, c \in RenameCases,
                            taken \in BOOLEAN})
    /\ fnOut = <<"none">>

CallParse ==
    /\ fnCall[1] = "parse"
    /\ fnOut = <<"none">>
    /\ fnOut' = <<"ret", parse_b_file_num_and_base(fnCall[2])>>
    /\ UNCHANGED <<fnCall, cp, ui, wvars>>

CallBuildHm ==
    /\ fnCall[1] = "hm"
    /\ fnOut = <<"none">>
    /\ fnOut' = <<"ret", build_hm_index_for_set(fnCall[2])>>
    /\ UNCHANGED <<fnCall, cp, ui, wvars>>

CallFindADateDir ==
    /\ fnCall[1] = "date"
    /\ fnOut = <<"none">>
    /\ fnOut' = <<"ret", find_a_date_dir(fnCall[2], fnCall[3])>>
    /\ UNCHANGED <<fnCall, cp, ui, wvars>>

CallMove ==
    /\ fnCall[1] = "move"
    /\ fnOut = <<"none">>
    /\ \E run \in fast_rename_or_move(fnCall[2]) : fnOut' = <<"ret", run>>
    /\ UNCHANGED <<fnCall, cp, ui, wvars>>

CallIsDateFolder ==
    /\ fnCall[1] = "date_name"
    /\ fnOut = <<"none">>
    /\ fnOut' = <<"ret", [is_date |-> is_date_folder(fnCall[2]),
                          yymmdd |-> to_yymmdd(fnCall[2])]>>
    /\ UNCHANGED <<fnCall, cp, ui, wvars>>

CallListAllBFiles ==
    /\ fnCall[1] = "walk"
    /\ fnOut = <<"none">>
    /\ fnOut' = <<"ret", list_all_b_files(fnCall[2])>>
    /\ UNCHANGED <<fnCall, cp, ui, wvars>>

\* the transfer of one record by the worker, in the mode given
CallTransfer ==
    /\ fnCall[1] = "transfer"
    /\ fnOut = <<"none">>
    /\ \E run \in TransferRuns(fnCall[2], fnCall[3]) : fnOut' = <<"ret", run>>
    /\ UNCHANGED <<fnCall, cp, ui, wvars>>

\* The rename-in-place branch of the worker of newapp2.py for the file name
\* of a set folder, the A data tagging its index hm: new_name and the name
\* of dest, which the file has afterwards, or <<>> when the record is
\* skipped with no_number and the file keeps its name. The folder holds
\* nothing else, or (taken) one more file that has the name new_name.
RenamedInPlace(name, mode, hm, taken) ==
    LET rec      == Record(mode, IF mode = "multi" THEN Str_0002 ELSE <<>>,
                           Str_0001,
                           IF mode = "multi" THEN Str_0002 ELSE Str_Single,
                           name)
        parsed   == parse_b_file_num_and_base(name)
        new_name == ComposeName(Str_250527, rec, parsed.base, hm, parsed.nn,
                                parsed.ext)
        folder   == {[dir |-> BDirOf(rec), name |-> n] :
                        n \in {name} \cup (IF taken THEN {new_name} ELSE {})}
    IN  IF ~parsed.ok THEN <<>>
        ELSE [new_name |-> new_name,
              dest |-> ensure_unique_path_fast(folder, BDirOf(rec), new_name)]

\* a first rename-in-place run over the file
CallRename ==
    /\ fnCall[1] = "rename"
    /\ fnOut = <<"none">>
    /\ fnOut' = <<"ret", RenamedInPlace(fnCall[2], fnCall[3], fnCall[4],
                                        fnCall[5])>>
    /\ UNCHANGED <<fnCall, cp, ui, wvars>>

\* a second rename-in-place run, with the same A data, over the file the
\* first run renamed; no file has the name it composes
CallRenameAgain ==
    /\ fnCall[1] = "rename"
    /\ fnOut[1] = "ret"
    /\ fnOut[2] # <<>>
    /\ fnOut' = <<"again", fnOut[2],
                  RenamedInPlace(fnOut[2].dest, fnCall[3], fnCall[4], FALSE)>>
    /\ UNCHANGED <<fnCall, cp, ui, wvars>>

FnNext ==
    \/ CallRename
    \/ CallRenameAgain
    \/ CallTransfer
    \/ CallIsDateFolder
    \/ CallListAllBFiles
    \/ CallParse
    \/ CallBuildHm
    \/ CallFindADateDir
    \/ CallMove

FnSpec == FnInit /\ [][FnNext]_vars

(***************************************************************************)
(* Claims about the pure helpers (checked under FnSpec)                     *)
(***************************************************************************)
ParseCalled == fnCall[1] = "parse" /\ fnOut[1] = "ret"

\* The positions of the stem at which a 2-digit run starts that is at the
\* start of the stem or right after an underscore and has no digit after it.
TrailingIndexPositions(stem) ==
    {p \in 1..(Len(stem) - 1) :
        /\ stem[p] \in Digits /\ stem[p + 1] \in Digits
        /\ (p = 1 \/ stem[p - 1] = "_")
        /\ \A k \in (p + 2)..Len(stem) : stem[k] \notin Digits}

\* b is s with its trailing underscores removed
IsStrippedOf(b, s) ==
    /\ Len(b) <= Len(s)
    /\ b = SubSeq(s, 1, Len(b))
    /\ \A k \in (Len(b) + 1)..Len(s) : s[k] = "_"
    /\ (b = <<>> \/ b[Len(b)] # "_")

HmCalled == fnCall[1] = "hm" /\ fnOut[1] = "ret"

\* The <<index, tag>> pairs the files of a folder contribute: one per regular
\* file that has both an index and a quality token.
HmContributions(folder) ==
    IF ~folder.isDir THEN {}
    ELSE {<<ANnOf(e.name), HmValOf(e.name)>> :
            e \in {x \in SeqSet(folder.entries) :
                     x.isFile /\ ANnOf(x.name) # <<>> /\ HmValOf(x.name) # ""}}

\* C8: build_hm_index_for_set maps an index to H iff some contributing file
\* of that index is tagged H, to M iff all of them are tagged M, and gives
\* the same mapping for every iteration order of the folder.
C8_QualityTagPriority ==
    HmCalled =>
        LET folder == fnCall[2]
            out    == fnOut[2]
            C      == HmContributions(folder)
        IN  /\ HmKeys(out) = {c[1] : c \in C}
            /\ \A e \in out :
                 /\ e[2] = "H" <=> <<e[1], "H">> \in C
                 /\ e[2] = "M" <=> <<e[1], "H">> \notin C
            /\ \A e1, e2 \in out : e1[1] = e2[1] => e1 = e2
            /\ folder.isDir =>
                 \A q \in Reorderings(folder.entries) :
                    build_hm_index_for_set([isDir |-> TRUE, entries |-> q]) = out

\* C8 witness: the Middle file of index 07 was scanned after the High one and
\* the index still maps to H.
C8_Witness ==
    /\ HmCalled
    /\ fnCall[2].isDir
    /\ fnCall[2].entries =
         <<File(Str_img_high_07_jpg), File(Str_img_middle_07_jpg)>>
    /\ fnOut[2] = {<<Str_07, "H">>}

DateCalled == fnCall[1] = "date" /\ fnOut[1] = "ret"

\* the smallest name of a set in character order
IsSmallestOf(n, names) ==
    n \in names /\ \A o \in names : o = n \/ NameLess(n, o)

\* C9: find_a_date_dir considers exactly the subdirectories whose digits are
\* at least 6 and end with the run key; it returns None iff there is none,
\* else the one named exactly the run key, else the smallest one with exactly
\* 8 digits, else the smallest one. With children 250527, 20250527_raw and
\* other_250527 and run key 250527 the result is 250527 in every order.
C9_DateFolderResolution ==
    DateCalled =>
        LET entries == IF fnCall[2].isDir THEN SeqSet(fnCall[2].entries) ELSE {}
            key     == fnCall[3]
            out     == fnOut[2]
            cands   == {e.name : e \in {x \in entries :
                          /\ x.isDir
                          /\ Len(DigitsOf(x.name)) >= 6
                          /\ Last6(DigitsOf(x.name)) = key}}
            eight   == {n \in cands : Len(DigitsOf(n)) = 8}
        IN  /\ out = NotFound <=> cands = {}
            /\ cands # {} =>
                 /\ out[1] = "dir"
                 /\ key \in cands => out[2] = key
                 /\ (key \notin cands /\ eight # {}) => IsSmallestOf(out[2], eight)
                 /\ (key \notin cands /\ eight = {}) => IsSmallestOf(out[2], cands)
            /\ (entries = {Dir(Str_250527), Dir(Str_20250527_raw),
                           Dir(Str_other_250527)} /\ key = Str_250527) =>
                 out = <<"dir", Str_250527>>

\* C9 witness: the three folders of the example, the exact one scanned last,
\* resolved to 250527.
C9_Witness ==
    /\ DateCalled
    /\ fnCall[2].isDir
    /\ fnCall[2].entries =
         <<Dir(Str_other_250527), Dir(Str_20250527_raw), Dir(Str_250527)>>
    /\ fnCall[3] = Str_250527
    /\ fnOut[2] = <<"dir", Str_250527>>

WalkCalled == fnCall[1] = "walk" /\ fnOut[1] = "ret"

IsSingleName(name) == [i \in 1..Len(name) |-> LowerChar(name[i])] = Str_single

FourDigitName(name) == Len(name) = 4 /\ \A i \in 1..4 : IsDigit(name[i])

\* the regular files directly in the 4-digit set folders of a top folder, as
\* <<set name, file name>>
SetFilesOf(top) ==
    UNION {{<<d.name, f.name>> : f \in {x \in SeqSet(d.children) : x.isFile}} :
           d \in {x \in SeqSet(top.children) :
                    x.isDir /\ FourDigitName(x.name)}}

\* <single>: the first child directory, in scan order, whose name equals
\* "single" whatever the case; the set is empty when there is none
SingleFolders(tree) ==
    LET hits == {k \in 1..Len(tree) :
                    tree[k].isDir /\ IsSingleName(tree[k].name)}
    IN  {tree[k] : k \in {h \in hits : \A g \in hits : h <= g}}

\* what the walker has to yield for a tree
ExpectedRecords(tree) ==
    UNION {{[mode |-> "single", stop |-> <<>>, set_no |-> p[1],
             top |-> t.name, name |-> p[2]] : p \in SetFilesOf(t)} :
           t \in SingleFolders(tree)}
    \cup UNION {{[mode |-> "multi", stop |-> t.name, set_no |-> p[1],
                  top |-> t.name, name |-> p[2]] : p \in SetFilesOf(t)} :
                t \in {x \in SeqSet(tree) :
                         x.isDir /\ FourDigitName(x.name)}}

\* C17: list_all_b_files yields one record, tagged single and without stop,
\* for every regular file directly in a 4-digit set folder of <single>, and
\* one record, tagged multi with the stop's name, for every regular file
\* directly in a 4-digit set folder of a 4-digit stop folder; it yields
\* nothing else and nothing twice, and a record has a stop iff it is multi.
C17_TreeWalker ==
    WalkCalled =>
        LET out == fnOut[2]
        IN  /\ SeqSet(out) = ExpectedRecords(fnCall[2])
            /\ \A i, j \in 1..Len(out) : i # j => out[i] # out[j]
            /\ \A i \in 1..Len(out) :
                  (out[i].stop # <<>>) <=> (out[i].mode = "multi")

\* C17 witness: a folder SINGLE with a file and a subdirectory in 0001, and
\* a stop 0012 with a 3-digit folder and two files in 0002: three records.
C17_Witness ==
    /\ WalkCalled
    /\ Len(fnCall[2]) = 2
    /\ fnCall[2][1].name = Str_0012
    /\ fnCall[2][2].name = Str_SINGLE
    /\ fnOut[2] =
         <<[mode |-> "single", stop |-> <<>>, set_no |-> Str_0001,
            top |-> Str_SINGLE, name |-> Str_a_jpg],
           [mode |-> "multi", stop |-> Str_0012, set_no |-> Str_0002,
            top |-> Str_0012, name |-> Str_b_jpg],
           [mode |-> "multi", stop |-> Str_0012, set_no |-> Str_0002,
            top |-> Str_0012, name |-> Str_a_jpg]>>

DateNameCalled == fnCall[1] = "date_name" /\ fnOut[1] = "ret"

AsciiDigitsOnly(name) == \A i \in 1..Len(name) : name[i] \in Digits

\* C18: is_date_folder(name) is true iff name is exactly 6 or exactly 8 ASCII
\* digits, and the run key to_yymmdd gives for an accepted name is 6 ASCII
\* digits.
C18_DateFolderIffAsciiDigits ==
    DateNameCalled =>
        LET name == fnCall[2]
            out  == fnOut[2]
        IN  /\ out.is_date <=> (Len(name) \in {6, 8} /\ AsciiDigitsOnly(name))
            /\ out.is_date =>
                  Len(out.yymmdd) = 6 /\ AsciiDigitsOnly(out.yymmdd)

\* C18: a name of six decimal digits, one of them not in ASCII, is accepted
\* as a date folder and is its own run key.
C18_NonAsciiDigitAccepted ==
    /\ DateNameCalled
    /\ Len(fnCall[2]) = 6
    /\ ~AsciiDigitsOnly(fnCall[2])
    /\ fnOut[2].is_date
    /\ fnOut[2].yymmdd = fnCall[2]

\* C18, what does hold: the names accepted are those of exactly 6 or 8
\* decimal digits of any script; to_yymmdd returns the last 6 characters (the
\* whole name when it has at most 6), so a 6-digit name maps to itself and
\* an 8-digit name to its last 6 digits.
C18_DecimalDigitsAndLastSix ==
    DateNameCalled =>
        LET name == fnCall[2]
            out  == fnOut[2]
            n    == Len(name)
        IN  /\ out.is_date <=>
                  (n \in {6, 8} /\ \A i \in 1..n : IsDigit(name[i]))
            /\ n <= 6 => out.yymmdd = name
            /\ n > 6 => out.yymmdd = [i \in 1..6 |-> name[n - 6 + i]]

TransferCalled == fnCall[1] = "transfer" /\ fnOut[1] = "ret"

\* C19: in every transfer mode a record's transfer whose first try fails
\* with a transient error is tried again, at least once and at most a fixed
\* number of times, before the record is recorded as ERROR.
C19_TransientFailureRetried ==
    TransferCalled =>
        /\ fnOut[2].tries \in 1..RETRY_MAX
        /\ fnOut[2].transient => fnOut[2].tries >= 2

\* C19: the rename in place has failed with EBUSY/EACCES and was not tried
\* again.
C19_RenameNotRetried ==
    /\ TransferCalled
    /\ fnCall[2] = "inplace"
    /\ fnOut[2].transient
    /\ ~fnOut[2].ok
    /\ fnOut[2].tries = 1

\* C19, what does hold: safe_copy2_atomic and fast_rename_or_move try again
\* after a transient failure, RETRY_MAX and two times at most.
C19_CopyAndMoveRetry ==
    (TransferCalled /\ fnCall[2] \in {"copy", "move"}) =>
        /\ fnOut[2].tries <= (IF fnCall[2] = "copy" THEN RETRY_MAX ELSE 2)
        /\ fnOut[2].transient => fnOut[2].tries >= 2

MoveCalled == fnCall[1] = "move" /\ fnOut[1] = "ret"

\* C12: fast_rename_or_move makes its tries with os.replace when the source
\* and the destination directory are on the same device and with shutil.move
\* (copy, then removal of the source) otherwise; it tries a second time, after
\* one sleep and with the same call, exactly when the first try raised EBUSY
\* or EACCES; it returns True iff its last try succeeded, so False after any
\* other failure and after a failed second try; it never makes more than two
\* tries; an atomic rename leaves the destination whole or absent.
C12_MoveDiscipline ==
    MoveCalled =>
        LET same == fnCall[2]
            run  == fnOut[2]
            n    == Len(run.tries)
        IN  /\ n \in 1..2
            /\ \A k \in 1..n :
                  run.tries[k].how =
                      (IF same THEN "os.replace" ELSE "shutil.move")
            /\ n = 2 <=> run.tries[1].res \in {"busy"}
            /\ run.slept = (IF n = 2 THEN <<MOVE_RETRY_SLEEP>> ELSE <<>>)
            /\ run.ok <=> run.tries[n].res = "ok"
            /\ run.ok => run.dst = "whole"
            /\ same /\ ~run.ok => run.dst = "absent"

\* C12 witness: on one device the first os.replace raised EBUSY and the
\* second one succeeded.
C12_Witness ==
    /\ MoveCalled
    /\ fnCall[2]
    /\ fnOut[2].ok
    /\ fnOut[2].tries = <<[how |-> "os.replace", res |-> "busy"],
                           [how |-> "os.replace", res |-> "ok"]>>

\* the starts of the two-digit runs of a stem: two digits with no digit
\* after them
TwoDigitRuns(stem) ==
    {u \in 1..(Len(stem) - 1) :
        /\ IsDigit(stem[u])
        /\ IsDigit(stem[u + 1])
        /\ (u + 1 = Len(stem) \/ ~IsDigit(stem[u + 2]))}

\* The index of an A file as the claim derives it: the two digits after an
\* underscore that end the stem of a name with an extension; otherwise the
\* right-most two-digit run of the stem; <<>> when there is none.
IndexByRule(name) ==
    LET st == Stem(name)
        n  == Len(st)
    IN  IF /\ Suffix(name) # <<>>
           /\ n >= 3
           /\ st[n - 2] = "_"
           /\ IsDigit(st[n - 1])
           /\ IsDigit(st[n])
        THEN SubSeq(st, n - 1, n)
        ELSE IF TwoDigitRuns(st) = {} THEN <<>>
        ELSE SubSeq(st, Max(TwoDigitRuns(st)), Max(TwoDigitRuns(st)) + 1)

\* the regular files of a folder that have both an index and a quality token
BothDerivable(folder) ==
    {e \in SeqSet(folder.entries) :
        e.isFile /\ IndexByRule(e.name) # <<>> /\ HmValOf(e.name) # ""}

HasHighToken(name) ==
    \E s \in 1..Len(name) : HmTokenAt(name, s) \in {"high", "h"}

\* the name holds a Middle token (middle, or m between word boundaries)
HasMiddleToken(name) ==
    \E s \in 1..Len(name) : HmTokenAt(name, s) \in {"middle", "m"}

\* the regular files of a folder with an index and tokens of both kinds
BothTokens(folder) ==
    {e \in SeqSet(folder.entries) :
        /\ e.isFile
        /\ ANnOf(e.name) # <<>>
        /\ HasHighToken(e.name)
        /\ HasMiddleToken(e.name)}

\* C23: a file whose name holds both a High token and a Middle token, in
\* either order, is tagged H by build_hm_index_for_set: its index maps to H.
C23_HighWinsInsideName ==
    HmCalled =>
        \A e \in BothTokens(fnCall[2]) : HmGet(fnOut[2], ANnOf(e.name)) = "H"

\* C23: the one file of the folder is Middle_High_07.jpg and index 07 maps
\* to M.
C23_MiddleFirstTaggedM ==
    /\ HmCalled
    /\ fnCall[2].isDir
    /\ fnCall[2].entries = <<File(Str_Middle_High_07_jpg)>>
    /\ fnOut[2] = {<<Str_07, "M">>}

\* C23, what holds instead: the leftmost token of the name decides, so a
\* file with both tokens is tagged H when a High token comes first, and when
\* it is the only contributor of its index the index maps to the tag of its
\* leftmost token.
C23_LeftmostTokenDecides ==
    HmCalled =>
        /\ \A e \in BothTokens(fnCall[2]) :
              LET first == Min({s \in 1..Len(e.name) :
                                  HmTokenAt(e.name, s) # ""})
              IN  /\ HmTokenAt(e.name, first) \in {"high", "h"} =>
                       HmGet(fnOut[2], ANnOf(e.name)) = "H"
                  /\ (/\ HmTokenAt(e.name, first) \in {"middle", "m"}
                      /\ \A x \in SeqSet(fnCall[2].entries) :
                            (x.isFile /\ ANnOf(x.name) = ANnOf(e.name)) => x = e)
                     => HmGet(fnOut[2], ANnOf(e.name)) = "M"
        /\ (File(Str_High_Middle_07_jpg) \in SeqSet(fnCall[2].entries)) =>
              <<Str_07, "H">> \in fnOut[2]

\* the file of a rename call has been through two rename-in-place runs
RenamedTwice == fnCall[1] = "rename" /\ fnOut[1] = "again"

\* the prefix a run puts before the base: the run key, the stop of a
\* multi-stop record, the set
RenamePrefix(mode) ==
    IF mode = "single"
    THEN Str_250527 \o <<"-">> \o Str_0001 \o <<"-">>
    ELSE Str_250527 \o <<"-">> \o Str_0002 \o <<"-">> \o Str_0001 \o <<"-">>

\* the source has no extension and a dot in its base (.a_11): the dot then
\* splits the composed name, and what is left of the dot is its stem
DotOnlyInBase(name) ==
    LET src == parse_b_file_num_and_base(name)
    IN  src.ext = <<>> /\ "." \in SeqSet(src.base)

\* the composed name parses to the index and extension of the source, its
\* base carrying the prefix and the tag
ComposedParsesAgain ==
    LET src   == parse_b_file_num_and_base(fnCall[2])
        again == parse_b_file_num_and_base(fnOut[2].new_name)
    IN  /\ again.ok
        /\ again.nn = src.nn
        /\ again.ext = src.ext
        /\ again.base = RenamePrefix(fnCall[3]) \o src.base
                        \o <<"_", fnCall[4]>>

\* the second run gives the renamed file another, longer name
RenamedAgainLonger ==
    /\ fnOut[3] # <<>>
    /\ fnOut[3].dest # fnOut[2].dest
    /\ Len(fnOut[3].dest) > Len(fnOut[2].dest)

\* C30 as stated: for every transferred record the composed destination
\* name parses again to the same index and extension, so that a second
\* rename-in-place run with the same A data renames the file again to a
\* different, longer name.
C30_EveryComposedNameParsesAgain ==
    RenamedTwice => ComposedParsesAgain /\ RenamedAgainLonger

\* a transferred file without extension and with a dot in its base: its
\* composed name has no index, and the second run leaves it alone
C30_RenamedNameWithoutIndex ==
    /\ RenamedTwice
    /\ fnCall[2] = <<".", "a", "_", "1", "1">>
    /\ ~fnCall[5]
    /\ fnOut[2].dest = RenamePrefix(fnCall[3])
                       \o <<".", "a", "_", fnCall[4], "_", "1", "1">>
    /\ ~parse_b_file_num_and_base(fnOut[2].dest).ok
    /\ fnOut[3] = <<>>

\* C30, amended: the composed name of a transferred record parses again to
\* the same index and extension, its base carrying the prefix and the tag,
\* unless the source has no extension and a dot in its base: the composed
\* name of such a source has an extension and never parses to that of the
\* source. A second rename-in-place run renames a file that landed under a
\* composed name that parses again to the name composed from it, which is
\* different and longer; it skips a file whose composed name has no index
\* and a file that landed under a _dupN name, which has none either.
C30_ComposedNameParsesAgain ==
    RenamedTwice =>
        LET first == fnOut[2]
            again == parse_b_file_num_and_base(first.new_name)
            src   == parse_b_file_num_and_base(fnCall[2])
        IN  /\ IF DotOnlyInBase(fnCall[2])
               THEN /\ Suffix(first.new_name) # <<>>
                    /\ ~(again.ok /\ again.ext = <<>>)
               ELSE ComposedParsesAgain
            /\ IF fnCall[5]
               THEN /\ first.dest = DupName(first.new_name, 1)
                    /\ ~parse_b_file_num_and_base(first.dest).ok
                    /\ fnOut[3] = <<>>
               ELSE /\ first.dest = first.new_name
                    /\ IF again.ok
                       THEN /\ RenamedAgainLonger
                            /\ fnOut[3].dest = fnOut[3].new_name
                            /\ fnOut[3].dest =
                                 RenamePrefix(fnCall[3]) \o again.base
                                 \o <<"_", fnCall[4], "_">> \o again.nn
                                 \o again.ext
                       ELSE fnOut[3] = <<>>

\* lumi_13.jpg, tagged H, after two runs
C30_Witness ==
    /\ RenamedTwice
    /\ fnCall = <<"rename", Str_lumi_13_jpg, "single", "H", FALSE>>
    /\ fnOut[2].dest = Str_250527 \o <<"-">> \o Str_0001
                       \o <<"-", "l", "u", "m", "i", "_", "H", "_", "1", "3",
                            ".", "j", "p", "g">>
    /\ fnOut[3].dest = Str_250527 \o <<"-">> \o Str_0001 \o <<"-">>
                       \o Str_250527 \o <<"-">> \o Str_0001
                       \o <<"-", "l", "u", "m", "i", "_", "H", "_", "H", "_",
                            "1", "3", ".", "j", "p", "g">>

\* _11._11. is renamed by both runs, the second reading an extension that
\* the source does not have
C30_RenamedWithAnotherExtension ==
    /\ RenamedTwice
    /\ fnCall[2] = <<"_", "1", "1", ".", "_", "1", "1", ".">>
    /\ DotOnlyInBase(fnCall[2])
    /\ parse_b_file_num_and_base(fnOut[2].new_name).ok
    /\ parse_b_file_num_and_base(fnOut[2].new_name).ext # <<>>
    /\ fnOut[3] # <<>>

\* lumi_13.jpg landed as ..._13_dup1.jpg, which the second run skips
C30_DupNameSkipped ==
    /\ RenamedTwice
    /\ fnCall = <<"rename", Str_lumi_13_jpg, "single", "H", TRUE>>
    /\ fnOut[2].dest = DupName(fnOut[2].new_name, 1)
    /\ fnOut[3] = <<>>

(***************************************************************************)
(* Spec: App.run.worker                                                    *)
(***************************************************************************)
MaxRecords == 2

UI_MSG_EVERY == 50

\* the name of the B date folder of the run
BDateName == Str_250527

yymmdd == to_yymmdd(BDateName)

Str_part == <<".", "p", "a", "r", "t">>

Str_out_H_01 == <<"2", "5", "0", "5", "2", "7", "-", "0", "0", "0", "1", "-", "l", "u", "m", "i", "_", "H", "_", "0", "1", ".", "j", "p", "g">>

Str_out_H_01_dup1 == <<"2", "5", "0", "5", "2", "7", "-", "0", "0", "0", "1", "-", "l", "u", "m", "i", "_", "H", "_", "0", "1", "_", "d", "u", "p", "1", ".", "j", "p", "g">>

Str_out_M_02 == <<"2", "5", "0", "5", "2", "7", "-", "0", "0", "0", "1", "-", "l", "u", "m", "i", "_", "M", "_", "0", "2", ".", "j", "p", "g">>

\* out_dir = out_root / yymmdd / nn; the directory of a B file
OutDir(nn) == <<"out", nn>>

OutKeyDir == <<"outk">>

\* the B file of a record on disk
BFileOnDisk(rec) ==
    [dir |-> BDirOf(rec), name |-> rec.name, data |-> SrcPath(rec),
     whole |-> TRUE]

\* a file that was on disk before the run
OldFile(dir, name) ==
    [dir |-> dir, name |-> name, data |-> <<"old">>, whole |-> TRUE]

\* What the output root may hold before the run: nothing; a file with the
\* name the first Single/0001 index-01 record composes; that file and its
\* _dup1; a regular file named 05 where the directory out_root/yymmdd/05
\* would go; a stale .part file.
OutputsBefore ==
    {{},
     {OldFile(OutDir(Str_01), Str_out_H_01)},
     {OldFile(OutDir(Str_01), Str_out_H_01),
      OldFile(OutDir(Str_01), Str_out_H_01_dup1)},
     {OldFile(OutKeyDir, Str_05)},
     {OldFile(OutDir(Str_01), Str_out_H_01 \o Str_part)}}

\* the variants and the ways they transfer: newapp.py copies; newapp2.py
\* moves to the output root (camera_sort) or renames in place; newapp3.py
\* renames to the output root or copies (mode_var)
Variants ==
    {<<"newapp", "copy">>, <<"newapp2", "move">>, <<"newapp2", "inplace">>,
     <<"newapp3", "rename">>, <<"newapp3", "copy">>}

\* the statistics with done already set
StatsInitDone(total) ==
    [total |-> total, processed |-> 0, copied_ok |-> 0, skipped |-> 0,
     skip_no_num |-> 0, skip_no_hm |-> 0, skip_no_setdir |-> 0,
     skip_empty_set |-> 0, copy_errors |-> 0, done |-> TRUE,
     manifest_path |-> ""]

\* self._stats as run() sets it before the worker starts; newapp3.py keeps
\* only total, processed, copied_ok, skipped and done, its other counters
\* stay at 0 here
StatsInit(total) ==
    [total |-> total, processed |-> 0, copied_ok |-> 0, skipped |-> 0,
     skip_no_num |-> 0, skip_no_hm |-> 0, skip_no_setdir |-> 0,
     skip_empty_set |-> 0, copy_errors |-> 0, done |-> FALSE,
     manifest_path |-> ""]

\* The state in which run() starts the worker thread: the B date folder
\* holds at least one file (total = 0 returns before), the A date folder was
\* found.
Init ==
    /\ FnIdle
    /\ cp = CopyIdle
    /\ UiIdle
    /\ \E v \in Variants :
          /\ app = v[1]
          /\ discipline = v[2]
          /\ sameDevice \in (IF v[2] = "move" THEN BOOLEAN ELSE {TRUE})
          /\ \E sel \in DistinctSeqs(BFilePool, MaxRecords) \ {<<>>},
                before \in (IF v[2] = "inplace" THEN {{}} ELSE OutputsBefore) :
                /\ files = list_all_b_files(BTreeOf(sel))
                /\ disk = before \cup {BFileOnDisk(files[k]) : k \in 1..Len(files)}
                /\ dirs = {f.dir[2] : f \in {x \in before : x.dir[1] = "out"}}
    /\ pc = "loop"
    /\ idx = 0
    /\ hm_cache = <<>>
    /\ created_dirs = {}
    /\ manifest_rows = <<>>
    /\ stats = StatsInit(Len(files))
    /\ queue = <<>>
    /\ manifest_file = <<>>
    /\ raised = FALSE
    /\ calls = <<>>

\* ---- one iteration of the for loop ----

\* the record the loop is at
AtRecord == pc = "loop" /\ idx < Len(files)

Rec == files[idx + 1]

\* nn, base, ext = parse_b_file_num_and_base(b_file)
Parsed == parse_b_file_num_and_base(Rec.name)

\* a worker that never finds a mapping in hm_cache
NeverCacheHit == FALSE

\* mapping = hm_cache.get(cache_key) is not None; newapp3.py has no cache
CacheHit == app # "newapp3" /\ CacheKey(Rec) \in DOMAIN hm_cache

\* the orders in which os.scandir(a_set_path) may yield the entries
ScanOrders == Reorderings(ASetPath(Rec).children)

\* os.scandir raises in build_hm_index_for_set: the set folder is a
\* directory that cannot be read
ScanRaises == ~CacheHit /\ ASetPath(Rec).isDir /\ ~ASetPath(Rec).readable

\* mapping, the folder scanned in the given order when it is not cached
MappingOf(order) ==
    IF CacheHit THEN hm_cache[CacheKey(Rec)]
    ELSE build_hm_index_for_set(
             [isDir |-> ASetPath(Rec).isDir, entries |-> order])

\* hm_cache[cache_key] = mapping
CacheAfter(mapping) ==
    IF app = "newapp3" \/ CacheHit THEN hm_cache
    ELSE [k \in DOMAIN hm_cache \cup {CacheKey(Rec)} |->
            IF k = CacheKey(Rec) THEN mapping ELSE hm_cache[k]]

\* the calls of build_hm_index_for_set after the record: one more unless the
\* mapping came from hm_cache
CallsAfter ==
    IF CacheHit THEN calls
    ELSE Append(calls, <<"build_hm_index_for_set", CacheKey(Rec)>>)

\* hm = mapping.get(nn) if mapping else None; "" for None
HmOf(mapping) == HmGet(mapping, Parsed.nn)

\* the names of the files among the first three entries of a scan
Sample(order) ==
    LET first == SubSeq(order, 1, Min({3, Len(order)}))
    IN  Map(SelectSeq(first, LAMBDA f : f.isFile), LAMBDA f : f.name)

\* the counter and the reason of a record with no tag, in the order of the
\* if / elif / else
SkipCounter(mapping) ==
    IF ~ASetPath(Rec).isDir THEN "skip_no_setdir"
    ELSE IF mapping = {} THEN "skip_empty_set"
    ELSE "skip_no_hm"

SkipReason(mapping, order) ==
    IF ~ASetPath(Rec).isDir THEN <<"no_set_dir">>
    ELSE IF mapping = {} THEN <<"empty_set">> \o Sample(order)
    ELSE <<"no_HM">>

\* the increments without the one of processed
BumpNoProcessed(s, fields) ==
    [f \in DOMAIN s |->
        IF f \in fields \ {"processed"} THEN s[f] + 1 ELSE s[f]]

\* self._stats[f] += 1 for every f of fields
Bump(s, fields) ==
    [f \in DOMAIN s |-> IF f \in fields THEN s[f] + 1 ELSE s[f]]

\* a row of manifest_rows: (src, dest, status, reason); dest is <<>> for ""
Row(src, dest, status, reason) == <<src, dest, status, reason>>

\* the message put when processed is a multiple of UI_MSG_EVERY
Progress(s, kind) ==
    IF s.processed % UI_MSG_EVERY = 0
    THEN Append(queue, <<kind, s.processed>>)
    ELSE queue

\* manifest_rows.append(row); newapp3.py keeps no manifest and puts no message
RowsAfter(row) ==
    IF app = "newapp3" THEN manifest_rows ELSE Append(manifest_rows, row)

QueueAfter(s, kind) == IF app = "newapp3" THEN queue ELSE Progress(s, kind)

\* an exception leaves the for loop: the finally clause of newapp.py and
\* newapp2.py is next; the worker of newapp3.py has none and ends
PcAfterRaise == IF app = "newapp3" THEN "exited" ELSE "finally"

\* new_name
NewName(mapping) ==
    ComposeName(yymmdd, Rec, Parsed.base, HmOf(mapping), Parsed.nn,
                Parsed.ext)

\* the record has an index and a tag: the worker goes on to transfer it
Tagged(mapping) ==
    AtRecord /\ Parsed.ok /\ ~ScanRaises /\ HmOf(mapping) # ""

\* a worker that calls mkdir for every record
MkdirAlways == TRUE

\* out_dir.mkdir(parents=True, exist_ok=True) is called: newapp.py and
\* newapp2.py call it for an out_dir not in created_dirs, newapp3.py always
MkdirCalled == app = "newapp3" \/ Parsed.nn \notin created_dirs

\* mkdir raises FileExistsError: a regular file has the name of out_dir
MkdirRaises == MkdirCalled /\ Exists(disk, OutKeyDir, Parsed.nn)

CreatedAfter ==
    IF app = "newapp3" THEN created_dirs ELSE created_dirs \cup {Parsed.nn}

\* the calls after a record that reached the output directory: the call of
\* build_hm_index_for_set if there was one, then the call of mkdir if
\* there was one
CallsAfterMkdir ==
    IF MkdirCalled THEN Append(CallsAfter, <<"mkdir", OutDir(Parsed.nn)>>)
    ELSE CallsAfter

\* the file a transfer of the record's B file leaves at dir / name
Written(dir, name, whole) ==
    [dir |-> dir, name |-> name, data |-> SrcPath(Rec), whole |-> whole]

\* the disk after safe_copy2_atomic(b_file, dir / dest) with result res
DiskAfterCopy(dir, dest, res) ==
    LET tmp == dest \o Str_part
        rest == (disk \ FileAt(disk, dir, tmp)) \ FileAt(disk, dir, dest)
        tmpNow == CASE res.tmp.kind = "absent" -> {}
                    [] res.tmp.kind = "stale"  -> FileAt(disk, dir, tmp)
                    [] res.tmp.kind = "copy"   ->
                         {Written(dir, tmp, res.tmp.bytes = BFileSize)}
        dstNow == IF res.dst.kind = "copy"
                  THEN {Written(dir, dest, res.dst.bytes = BFileSize)}
                  ELSE FileAt(disk, dir, dest)
    IN  rest \cup tmpNow \cup dstNow

\* the disk after a move or rename of b_file to dir / dest with result res
DiskAfterMove(dir, dest, res) ==
    LET rest == disk \ FileAt(disk, dir, dest)
    IN  IF res.ok
        THEN (rest \ FileAt(disk, BDirOf(Rec), Rec.name))
             \cup {Written(dir, dest, TRUE)}
        ELSE IF res.dst = "absent" THEN disk
        ELSE rest \cup {Written(dir, dest, res.dst = "whole")}

\* the counters, the row and the message of a transferred record
Settle(ok, dir, dest, okReason, errReason) ==
    /\ stats' = Bump(stats,
                     IF ok THEN {"copied_ok", "processed"}
                     ELSE IF app = "newapp3" THEN {"skipped", "processed"}
                     ELSE {"skipped", "copy_errors", "processed"})
    /\ manifest_rows' =
          RowsAfter(IF ok THEN Row(SrcPath(Rec), <<dir, dest>>, "OK", okReason)
                    ELSE Row(SrcPath(Rec), <<dir, dest>>, "ERROR", errReason))
    /\ queue' = QueueAfter(stats', "progress")
    /\ idx' = idx + 1

\* a skip of a record without index that also removes the B file
SkipNoNumberRemovesFile ==
    /\ AtRecord
    /\ ~Parsed.ok
    /\ stats' = Bump(stats, IF app = "newapp3" THEN {"skipped", "processed"}
                            ELSE {"skipped", "skip_no_num", "processed"})
    /\ manifest_rows' = RowsAfter(Row(SrcPath(Rec), <<>>, "SKIP", <<"no_number">>))
    /\ queue' = QueueAfter(stats', "skip")
    /\ idx' = idx + 1
    /\ disk' = disk \ FileAt(disk, BDirOf(Rec), Rec.name)
    /\ UNCHANGED <<fvars, cp, ui, calls, app, discipline, sameDevice, files,
                   dirs, pc, hm_cache, created_dirs, manifest_file, raised>>

\* if nn is None: ... continue
SkipNoNumber ==
    /\ AtRecord
    /\ ~Parsed.ok
    /\ stats' = Bump(stats, IF app = "newapp3" THEN {"skipped", "processed"}
                            ELSE {"skipped", "skip_no_num", "processed"})
    /\ manifest_rows' = RowsAfter(Row(SrcPath(Rec), <<>>, "SKIP", <<"no_number">>))
    /\ queue' = QueueAfter(stats', "skip")
    /\ idx' = idx + 1
    /\ UNCHANGED <<fvars, cp, ui, calls, app, discipline, sameDevice, files,
                   disk, dirs, pc, hm_cache, created_dirs, manifest_file,
                   raised>>

\* build_hm_index_for_set raises: nothing catches it inside the loop
ScanFails ==
    /\ AtRecord
    /\ Parsed.ok
    /\ ScanRaises
    /\ raised' = TRUE
    /\ pc' = PcAfterRaise
    /\ calls' = CallsAfter
    /\ UNCHANGED <<fvars, cp, ui, app, discipline, sameDevice, files, disk,
                   dirs, idx, hm_cache, created_dirs, manifest_rows, stats,
                   queue, manifest_file>>

\* if hm is None: ... continue
SkipNoTag ==
    /\ AtRecord
    /\ Parsed.ok
    /\ ~ScanRaises
    /\ \E order \in ScanOrders :
          LET mapping == MappingOf(order)
          IN  /\ HmOf(mapping) = ""
              /\ hm_cache' = CacheAfter(mapping)
              /\ stats' = Bump(stats,
                     IF app = "newapp3" THEN {"skipped", "processed"}
                     ELSE {"skipped", SkipCounter(mapping), "processed"})
              /\ manifest_rows' =
                    RowsAfter(Row(SrcPath(Rec), <<>>, "SKIP",
                                  SkipReason(mapping, order)))
    /\ queue' = QueueAfter(stats', "skip")
    /\ idx' = idx + 1
    /\ calls' = CallsAfter
    /\ UNCHANGED <<fvars, cp, ui, app, discipline, sameDevice, files, disk,
                   dirs, pc, created_dirs, manifest_file, raised>>

\* out_dir.mkdir raises: nothing catches it inside the loop
MkdirFails ==
    /\ AtRecord
    /\ discipline # "inplace"
    /\ Parsed.ok
    /\ \E order \in ScanOrders :
          /\ Tagged(MappingOf(order))
          /\ hm_cache' = CacheAfter(MappingOf(order))
    /\ MkdirRaises
    /\ raised' = TRUE
    /\ pc' = PcAfterRaise
    /\ calls' = CallsAfterMkdir
    /\ UNCHANGED <<fvars, cp, ui, app, discipline, sameDevice, files, disk,
                   dirs, idx, created_dirs, manifest_rows, stats, queue,
                   manifest_file>>

\* newapp.py, newapp3.py (mode_var "copy"):
\* dest = ensure_unique_path_fast(out_dir / new_name);
\* ok = safe_copy2_atomic(b_file, dest)
TransferCopy ==
    /\ AtRecord
    /\ discipline = "copy"
    /\ Parsed.ok
    /\ \E order \in ScanOrders :
          LET mapping == MappingOf(order)
              dir == OutDir(Parsed.nn)
              dest == ensure_unique_path_fast(disk, dir, NewName(mapping))
          IN  /\ Tagged(mapping)
              /\ ~MkdirRaises
              /\ hm_cache' = CacheAfter(mapping)
              /\ \E res \in (IF Exists(disk, dir, dest \o Str_part)
                             THEN SafeCopyResultsStale
                             ELSE SafeCopyResultsFresh) :
                    /\ disk' = DiskAfterCopy(dir, dest, res)
                    /\ Settle(res.ok, dir, dest, <<>>, <<"copy_failed">>)
    /\ dirs' = dirs \cup {Parsed.nn}
    /\ created_dirs' = CreatedAfter
    /\ calls' = CallsAfterMkdir
    /\ UNCHANGED <<fvars, cp, ui, app, discipline, sameDevice, files, pc,
                   manifest_file, raised>>

\* newapp2.py with camera_sort: ok = fast_rename_or_move(b_file, dest)
TransferMove ==
    /\ AtRecord
    /\ discipline = "move"
    /\ Parsed.ok
    /\ \E order \in ScanOrders :
          LET mapping == MappingOf(order)
              dir == OutDir(Parsed.nn)
              dest == ensure_unique_path_fast(disk, dir, NewName(mapping))
          IN  /\ Tagged(mapping)
              /\ ~MkdirRaises
              /\ hm_cache' = CacheAfter(mapping)
              /\ \E res \in MoveResults(sameDevice) :
                    /\ disk' = DiskAfterMove(dir, dest, res)
                    /\ Settle(res.ok, dir, dest, <<"moved">>, <<"move_failed">>)
    /\ dirs' = dirs \cup {Parsed.nn}
    /\ created_dirs' = CreatedAfter
    /\ calls' = CallsAfterMkdir
    /\ UNCHANGED <<fvars, cp, ui, app, discipline, sameDevice, files, pc,
                   manifest_file, raised>>

\* newapp2.py without camera_sort:
\* dest = ensure_unique_path_fast(b_file.parent / new_name);
\* os.replace(b_file, dest), any exception caught
RenameInPlace ==
    /\ AtRecord
    /\ discipline = "inplace"
    /\ Parsed.ok
    /\ \E order \in ScanOrders :
          LET mapping == MappingOf(order)
              dir == BDirOf(Rec)
              dest == ensure_unique_path_fast(disk, dir, NewName(mapping))
          IN  /\ Tagged(mapping)
              /\ hm_cache' = CacheAfter(mapping)
              /\ \E res \in RenameResults :
                    /\ disk' = DiskAfterMove(dir, dest, res)
                    /\ Settle(res.ok, dir, dest, <<"renamed_inplace">>,
                              <<"rename_inplace_failed">>)
    /\ calls' = CallsAfter
    /\ UNCHANGED <<fvars, cp, ui, app, discipline, sameDevice, files, dirs, pc,
                   created_dirs, manifest_file, raised>>

\* newapp3.py with mode_var "rename": b_file.rename(dest), any exception
\* caught
TransferRename ==
    /\ AtRecord
    /\ discipline = "rename"
    /\ Parsed.ok
    /\ \E order \in ScanOrders :
          LET mapping == MappingOf(order)
              dir == OutDir(Parsed.nn)
              dest == ensure_unique_path_fast(disk, dir, NewName(mapping))
          IN  /\ Tagged(mapping)
              /\ ~MkdirRaises
              /\ hm_cache' = CacheAfter(mapping)
              /\ \E res \in RenameResults :
                    /\ disk' = DiskAfterMove(dir, dest, res)
                    /\ Settle(res.ok, dir, dest, <<>>, <<>>)
    /\ dirs' = dirs \cup {Parsed.nn}
    /\ created_dirs' = CreatedAfter
    /\ calls' = CallsAfterMkdir
    /\ UNCHANGED <<fvars, cp, ui, app, discipline, sameDevice, files, pc,
                   manifest_file, raised>>

\* ---- after the loop ----

Header == <<"src", "dest", "status", "reason">>

\* the for loop of newapp.py and newapp2.py is exhausted
LoopEnds ==
    /\ pc = "loop"
    /\ idx = Len(files)
    /\ app # "newapp3"
    /\ pc' = "manifest"
    /\ UNCHANGED <<fvars, cp, ui, calls, app, discipline, sameDevice, files,
                   disk, dirs, idx, hm_cache, created_dirs, manifest_rows,
                   stats, queue, manifest_file, raised>>

\* The manifest is written: the header and the rows, manifest_path set; or
\* open() or the writer raises, which is caught: manifest_path is "" and the
\* file is missing or holds fewer rows.
WriteManifest ==
    /\ pc = "manifest"
    /\ \/ /\ manifest_file' = <<Header>> \o manifest_rows
          /\ stats' = [stats EXCEPT !.manifest_path = "_manifest.csv"]
       \/ /\ manifest_file' = manifest_file
          /\ stats' = [stats EXCEPT !.manifest_path = ""]
       \/ /\ \E k \in 0..(Len(manifest_rows) - 1) :
                manifest_file' = <<Header>> \o SubSeq(manifest_rows, 1, k)
          /\ stats' = [stats EXCEPT !.manifest_path = ""]
    /\ pc' = "verify"
    /\ UNCHANGED <<fvars, cp, ui, calls, app, discipline, sameDevice, files,
                   disk, dirs, idx, hm_cache, created_dirs, manifest_rows,
                   queue, raised>>

\* Path(dest).is_file()
IsFile(path) == path # <<>> /\ Exists(disk, path[1], path[2])

\* missing_after_ok
MissingAfterOk ==
    Cardinality({k \in 1..Len(manifest_rows) :
                   manifest_rows[k][3] = "OK" /\ ~IsFile(manifest_rows[k][2])})

\* the verification of the OK rows against the disk, with its warning
VerifyOkRows ==
    /\ pc = "verify"
    /\ queue' = IF MissingAfterOk > 0
                THEN Append(queue, <<"warning", MissingAfterOk>>)
                ELSE queue
    /\ pc' = "finally"
    /\ UNCHANGED <<fvars, cp, ui, calls, app, discipline, sameDevice, files,
                   disk, dirs, idx, hm_cache, created_dirs, manifest_rows,
                   stats, manifest_file, raised>>

\* finally: self._stats["done"] = True; the thread ends, with the exception
\* if one was raised
Finally ==
    /\ pc = "finally"
    /\ stats' = [stats EXCEPT !.done = TRUE]
    /\ pc' = "exited"
    /\ UNCHANGED <<fvars, cp, ui, calls, app, discipline, sameDevice, files,
                   disk, dirs, idx, hm_cache, created_dirs, manifest_rows,
                   queue, manifest_file, raised>>

\* newapp3.py: self._stats["done"] = True after the loop, the last statement
\* of the worker
SetDoneAfterLoop ==
    /\ pc = "loop"
    /\ idx = Len(files)
    /\ app = "newapp3"
    /\ stats' = [stats EXCEPT !.done = TRUE]
    /\ pc' = "exited"
    /\ UNCHANGED <<fvars, cp, ui, calls, app, discipline, sameDevice, files,
                   disk, dirs, idx, hm_cache, created_dirs, manifest_rows,
                   queue, manifest_file, raised>>

Next ==
    \/ SkipNoNumber
    \/ ScanFails
    \/ SkipNoTag
    \/ MkdirFails
    \/ TransferCopy
    \/ TransferMove
    \/ RenameInPlace
    \/ TransferRename
    \/ LoopEnds
    \/ WriteManifest
    \/ VerifyOkRows
    \/ Finally
    \/ SetDoneAfterLoop

Spec == Init /\ [][Next]_vars

(***************************************************************************)
(* Claims about the worker (checked under Spec)                            *)
(***************************************************************************)
\* the variants that keep a manifest
HasManifest == app \in {"newapp", "newapp2"}

\* the worker is past its for loop
LoopLeft == pc \in {"manifest", "verify", "finally", "exited"}

\* the rows with a given status, and with a given first word of the reason
RowsWithStatus(status) ==
    {k \in 1..Len(manifest_rows) : manifest_rows[k][3] = status}

RowsWithReason(class) ==
    {k \in 1..Len(manifest_rows) :
       manifest_rows[k][4] # <<>> /\ manifest_rows[k][4][1] = class}

\* The outcome the classification order gives a record, from the names alone:
\* the contributions of the A set folder's files, whatever their order.
ContribOf(rec) ==
    HmContributions([isDir |-> ASetPath(rec).isDir,
                     entries |-> ASetPath(rec).children])

ClassOf(rec) ==
    IF TrailingIndexPositions(Stem(rec.name)) = {} THEN "no_number"
    ELSE IF ~ASetPath(rec).isDir THEN "no_set_dir"
    ELSE IF ContribOf(rec) = {} THEN "empty_set"
    ELSE IF \A c \in ContribOf(rec) :
               c[1] # parse_b_file_num_and_base(rec.name).nn
         THEN "no_HM"
    ELSE "transfer"

\* row k records the outcome of class c
RowHasClass(k, c) ==
    LET row == manifest_rows[k]
    IN  IF c = "transfer"
        THEN row[3] \in {"OK", "ERROR"} /\ row[2] # <<>>
        ELSE row[3] = "SKIP" /\ row[4] # <<>> /\ row[4][1] = c

\* C3: once the loop is over every record has exactly one row, of the outcome
\* the classification order (no_number, no_set_dir, empty_set, no_HM, then
\* OK or ERROR by the transfer's result) gives it, and each outcome counter
\* equals the number of rows of its outcome.
C3_EveryRecordOneOutcome ==
    (HasManifest /\ LoopLeft) =>
        /\ Len(manifest_rows) = Len(files)
        /\ \A k \in 1..Len(manifest_rows) :
              /\ k <= Len(files)
              /\ manifest_rows[k][1] = SrcPath(files[k])
              /\ RowHasClass(k, ClassOf(files[k]))
        /\ stats.skip_no_num = Cardinality(RowsWithReason("no_number"))
        /\ stats.skip_no_setdir = Cardinality(RowsWithReason("no_set_dir"))
        /\ stats.skip_empty_set = Cardinality(RowsWithReason("empty_set"))
        /\ stats.skip_no_hm = Cardinality(RowsWithReason("no_HM"))
        /\ stats.copy_errors = Cardinality(RowsWithStatus("ERROR"))
        /\ stats.copied_ok = Cardinality(RowsWithStatus("OK"))

\* a record was left without an outcome: the loop ended at it
C3_RecordWithoutOutcome ==
    /\ HasManifest
    /\ pc = "exited"
    /\ Len(manifest_rows) < Len(files)
    /\ ClassOf(files[Len(manifest_rows) + 1]) = "transfer"

\* C4: a worker that has ended has one row per record, row k with the k-th
\* record of the walker as its src and an empty dest when its status is SKIP,
\* and has written the manifest file: the header, then those rows in order.
C4_ManifestWrittenOnce ==
    (HasManifest /\ pc = "exited") =>
        /\ Len(manifest_rows) = Len(files)
        /\ \A k \in 1..Len(manifest_rows) :
              /\ k <= Len(files)
              /\ manifest_rows[k][1] = SrcPath(files[k])
              /\ (manifest_rows[k][3] = "SKIP" => manifest_rows[k][2] = <<>>)
        /\ manifest_file = <<Header>> \o manifest_rows
        /\ stats.manifest_path # ""

\* the worker has ended with rows and without a manifest file
C4_NoManifest ==
    /\ HasManifest
    /\ pc = "exited"
    /\ manifest_rows # <<>>
    /\ manifest_file = <<>>

\* C5: in every variant a worker thread that has ended has set done (a
\* thread that has ended sets nothing any more, so done = True is reached in
\* every execution only if this holds).
C5_EndedWorkerIsDone == pc = "exited" => stats.done

\* the worker of newapp3.py has ended by an exception, done still False
C5_EndedNotDone ==
    /\ app = "newapp3"
    /\ pc = "exited"
    /\ raised
    /\ ~stats.done

\* C6: in newapp.py and newapp2.py no exception leaves the for loop, and a
\* worker that is past the loop has gone through every record.
C6_NoExceptionEscapes ==
    HasManifest =>
        /\ ~raised
        /\ (LoopLeft => idx = Len(files) /\ stats.processed = Len(files))

\* an exception has left the loop with records still to go
C6_Escaped ==
    /\ HasManifest
    /\ raised
    /\ idx + 1 < Len(files)

\* the tag of a record's index: H when a contributing file of the index is
\* tagged H, else M
TagOf(rec) ==
    IF <<parse_b_file_num_and_base(rec.name).nn, "H">> \in ContribOf(rec)
    THEN "H" ELSE "M"

\* K-S-b_t_nn+e for a Single record, K-P-S-b_t_nn+e for a Multi record
ExpectedName(rec) ==
    LET p == parse_b_file_num_and_base(rec.name)
        tail == p.base \o <<"_", TagOf(rec), "_">> \o p.nn \o p.ext
    IN  IF rec.mode = "single"
        THEN yymmdd \o <<"-">> \o rec.set_no \o <<"-">> \o tail
        ELSE yymmdd \o <<"-">> \o rec.stop \o <<"-">> \o rec.set_no
             \o <<"-">> \o tail

\* name.ext for n = 0, name_dup{n}.ext for n >= 1
Candidate(name, n) ==
    IF n = 0 THEN name
    ELSE Stem(name) \o <<"_", "d", "u", "p">> \o Decimal(n) \o Suffix(name)

\* a step of the loop that transfers a record: it appends an OK or ERROR row
NewRow == manifest_rows'[Len(manifest_rows')]

TransferStep ==
    /\ HasManifest
    /\ Len(manifest_rows') = Len(manifest_rows) + 1
    /\ NewRow[3] \in {"OK", "ERROR"}

\* the file a row's transfer puts at its dest
FileOfRow(row) ==
    [dir |-> row[2][1], name |-> row[2][2], data |-> row[1], whole |-> TRUE]

\* two OK rows, j before k, of records that compose the same filename for
\* the same directory
CollidingOkRows(j, k) ==
    /\ j < k
    /\ manifest_rows[j][3] = "OK"
    /\ manifest_rows[k][3] = "OK"
    /\ manifest_rows[j][2][1] = manifest_rows[k][2][1]
    /\ ExpectedName(files[j]) = ExpectedName(files[k])

\* C1 as stated: of two records that compose the same filename and are both
\* transferred, the first lands at name.ext and the second at name_dup1.ext.
C1_FirstAtNameSecondAtDup1 ==
    HasManifest =>
        \A j, k \in 1..Len(manifest_rows) :
            CollidingOkRows(j, k) =>
                /\ manifest_rows[j][2][2] = ExpectedName(files[j])
                /\ manifest_rows[k][2][2] =
                      Candidate(ExpectedName(files[k]), 1)

\* the dest of a transfer is free before it, and is the first free one of
\* name.ext, name_dup1.ext, name_dup2.ext, ...; an OK transfer leaves the
\* whole file there and every file that was on disk in place, but for the
\* moved source and a stale dest.part
C1_Step ==
    TransferStep =>
        LET rec == files[idx + 1]
            dir == NewRow[2][1]
            dest == NewRow[2][2]
        IN  /\ ~Exists(disk, dir, dest)
            /\ \E n \in 0..Cardinality(disk) :
                  /\ dest = Candidate(ExpectedName(rec), n)
                  /\ \A m \in 0..(n - 1) :
                        Exists(disk, dir, Candidate(ExpectedName(rec), m))
            /\ NewRow[3] = "OK" =>
                  /\ FileAt(disk', dir, dest) = {FileOfRow(NewRow)}
                  /\ \A f \in disk :
                        \/ f \in disk'
                        \/ f = BFileOnDisk(rec)
                        \/ f.dir = dir /\ f.name = dest \o Str_part

\* every OK row's file is on disk, no two OK rows share a dest, and two
\* colliding OK rows are at name.ext and name_dup1.ext when no other file
\* has one of these two names
C1_Rows ==
    HasManifest =>
        /\ \A k \in RowsWithStatus("OK") : FileOfRow(manifest_rows[k]) \in disk
        /\ \A j, k \in RowsWithStatus("OK") :
              j # k => manifest_rows[j][2] # manifest_rows[k][2]
        /\ \A j, k \in 1..Len(manifest_rows) :
              (/\ CollidingOkRows(j, k)
               /\ \A f \in disk :
                     (/\ f.dir = manifest_rows[j][2][1]
                      /\ f.name \in {Candidate(ExpectedName(files[j]), n) :
                                       n \in 0..1})
                     => f.data \in {manifest_rows[j][1], manifest_rows[k][1]})
              => /\ manifest_rows[j][2][2] = ExpectedName(files[j])
                 /\ manifest_rows[k][2][2] =
                       Candidate(ExpectedName(files[k]), 1)

\* C1 (amended): the dest of every transfer is the first free path among
\* name.ext, name_dup1.ext, ..., so of two records that compose the same
\* filename and are both transferred the second lands at a later path than
\* the first (name.ext and name_dup1.ext when no other file has these
\* names), both files are present, and no OK transfer overwrites or removes a
\* file that was at its dest.
C1_CollisionSafeNaming == []C1_Rows /\ [][C1_Step]_vars

\* two colliding records both transferred into a directory that held
\* name.ext before the run: they are at name_dup1.ext and name_dup2.ext
C1_Witness ==
    /\ HasManifest
    /\ Len(manifest_rows) = 2
    /\ CollidingOkRows(1, 2)
    /\ OldFile(OutDir(Str_01), Str_out_H_01) \in disk
    /\ manifest_rows[1][2][2] = Str_out_H_01_dup1
    /\ manifest_rows[2][2][2] = Candidate(Str_out_H_01, 2)

\* the dest of a transfer is the composed filename, with _dup{n} before the
\* extension when that name is taken, in out_root/yymmdd/nn when the files
\* go to the output root and in the B file's own folder when renamed in place
C7_Step ==
    TransferStep =>
        LET rec == files[idx + 1]
            dir == NewRow[2][1]
            dest == NewRow[2][2]
        IN  /\ dir = IF discipline = "inplace" THEN BDirOf(rec)
                     ELSE OutDir(parse_b_file_num_and_base(rec.name).nn)
            /\ IF ~Exists(disk, dir, ExpectedName(rec))
               THEN dest = ExpectedName(rec)
               ELSE \E n \in 1..Cardinality(disk) :
                       dest = Candidate(ExpectedName(rec), n)

\* the end-to-end scenario: Single/0001/lumi_01.jpg and lumi_02.jpg, the A
\* set folder with a High 01 and a Middle 02 file, an empty output root, a
\* run to the end with no failed transfer
ScenarioFiles ==
    <<Record("single", <<>>, Str_0001, Str_Single, Str_lumi_01_jpg),
      Record("single", <<>>, Str_0001, Str_Single, Str_lumi_02_jpg)>>

ScenarioRun ==
    /\ HasManifest
    /\ discipline \in {"copy", "move"}
    /\ files = ScenarioFiles
    /\ \A f \in disk : f.data # <<"old">>
    /\ pc = "exited"
    /\ stats.copy_errors = 0

ScenarioResult ==
    /\ Len(manifest_rows) = 2
    /\ manifest_rows[1][2] = <<OutDir(Str_01), Str_out_H_01>>
    /\ manifest_rows[2][2] = <<OutDir(Str_02), Str_out_M_02>>
    /\ manifest_rows[1][3] = "OK"
    /\ manifest_rows[2][3] = "OK"
    /\ FileOfRow(manifest_rows[1]) \in disk
    /\ FileOfRow(manifest_rows[2]) \in disk
    /\ stats.copied_ok = 2
    /\ stats.skipped = 0

\* C7: the destination filename of every transferred record is K-S-b_t_nn+e
\* (Single) or K-P-S-b_t_nn+e (Multi), under out_root/K/nn when files are
\* copied or moved to the output root; the end-to-end scenario gives
\* 250527-0001-lumi_H_01.jpg under 01 and 250527-0001-lumi_M_02.jpg under
\* 02, two OK rows, copied_ok = 2 and skipped = 0.
C7_NameComposition == [](ScenarioRun => ScenarioResult) /\ [][C7_Step]_vars

\* the scenario has run to its end
C7_Witness == ScenarioRun /\ ScenarioResult /\ manifest_file # <<>>

\* no element occurs twice in q
NoRepeat(q) == \A i, j \in 1..Len(q) : i # j => q[i] # q[j]

MkdirCalls(q) == SelectSeq(q, LAMBDA c : c[1] = "mkdir")

C24_State ==
    app \in {"newapp", "newapp2"} =>
        /\ NoRepeat(MkdirCalls(calls))
        /\ \A nn \in created_dirs :
              \E k \in 1..Len(calls) : calls[k] = <<"mkdir", OutDir(nn)>>

C24_Step ==
    (/\ app \in {"newapp", "newapp2"}
     /\ pc = "loop"
     /\ idx' = idx + 1
     /\ manifest_rows'[idx + 1][3] \in {"OK", "ERROR"}
     /\ discipline # "inplace"
     /\ parse_b_file_num_and_base(files[idx + 1].name).nn \in created_dirs) =>
        /\ MkdirCalls(calls') = MkdirCalls(calls)
        /\ created_dirs' = created_dirs
        /\ dirs' = dirs

\* C24: in a run of newapp.py or newapp2.py the worker calls mkdir at most
\* once for an output directory; a later record for the same directory
\* finds it in created_dirs and goes to its transfer with no call of mkdir.
C24_MkdirOncePerDirectory == []C24_State /\ [][C24_Step]_vars

\* C24 witness: two records were transferred into the same output directory
\* after a single call of mkdir.
C24_Witness ==
    /\ app \in {"newapp", "newapp2"}
    /\ idx = 2
    /\ manifest_rows[1][3] = "OK"
    /\ manifest_rows[2][3] = "OK"
    /\ manifest_rows[1][2][1] = manifest_rows[2][2][1]
    /\ manifest_rows[1][2][1] \in {OutDir(Str_01), OutDir(Str_02)}
    /\ Len(MkdirCalls(calls)) = 1

Counters ==
    {"processed", "copied_ok", "skipped", "skip_no_num", "skip_no_hm",
     "skip_no_setdir", "skip_empty_set", "copy_errors"}

C27_State ==
    HasManifest =>
        /\ stats.processed = Len(manifest_rows)
        /\ stats.processed = idx
        /\ stats.processed <= stats.total
        /\ stats.copied_ok + stats.skipped = stats.processed
        /\ stats.skipped = stats.skip_no_num + stats.skip_no_hm
                           + stats.skip_no_setdir + stats.skip_empty_set
                           + stats.copy_errors
        /\ stats.copied_ok = Cardinality(RowsWithStatus("OK"))
        /\ stats.copy_errors = Cardinality(RowsWithStatus("ERROR"))

C27_Step ==
    HasManifest =>
        /\ \A f \in Counters : stats'[f] >= stats[f]
        /\ stats'.total = stats.total

\* C27: in newapp.py and newapp2.py, each time the worker is between two
\* records processed equals the number of manifest rows and is at most
\* total, copied_ok + skipped = processed, skipped is the sum of the four
\* skip counters and copy_errors, copied_ok is the number of OK rows and
\* copy_errors the number of ERROR rows; no counter decreases during the run.
C27_CounterConsistency == []C27_State /\ [][C27_Step]_vars

\* C27 witness: after two records, one transferred and one that failed in its
\* transfer.
C27_Witness ==
    /\ HasManifest
    /\ pc = "loop"
    /\ idx = 2
    /\ stats.processed = 2
    /\ stats.copied_ok = 1
    /\ stats.copy_errors = 1
    /\ stats.skipped = 1

\* the row just appended is that of a move or of a rename in place
MoveStep == app = "newapp2" /\ TransferStep

\* after the step the B file of the new row is at its source path
SourceThere == Exists(disk', NewRow[1][1], NewRow[1][2])

\* after the step something is at the destination path of the new row
DestThere == Exists(disk', NewRow[2][1], NewRow[2][2])

C28_Step ==
    MoveStep =>
        /\ NewRow[3] = "OK" => FileOfRow(NewRow) \in disk' /\ ~SourceThere
        /\ NewRow[3] = "ERROR" => SourceThere /\ ~DestThere
        /\ SourceThere \/ FileOfRow(NewRow) \in disk'

\* C28: after every call of fast_rename_or_move, and of the os.replace in
\* place, a record reported OK has its file at the destination and no longer
\* at the source path, a record reported ERROR has its file at the source
\* path and nothing at the destination, and the file is never absent from
\* both paths.
C28_MoveKeepsOneCopy == [][C28_Step]_vars

\* C28: a move across devices is reported ERROR (move_failed) with the whole
\* file at the destination and the B file still at its source path.
C28_ErrorWithCopyAtDestination ==
    /\ app = "newapp2"
    /\ discipline = "move"
    /\ ~sameDevice
    /\ \E k \in 1..Len(manifest_rows) :
          /\ manifest_rows[k][3] = "ERROR"
          /\ manifest_rows[k][4] = <<"move_failed">>
          /\ FileOfRow(manifest_rows[k]) \in disk
          /\ Exists(disk, manifest_rows[k][1][1], manifest_rows[k][1][2])

\* C28, what holds: with os.replace (one device, or the rename in place) the
\* claim holds as stated; with shutil.move across devices an OK record has
\* its file at the destination only, and the file is never absent from both
\* paths.
C28_RenameKeepsOneCopy ==
    [][MoveStep =>
         /\ (sameDevice \/ discipline = "inplace") => C28_Step
         /\ NewRow[3] = "OK" => FileOfRow(NewRow) \in disk' /\ ~SourceThere
         /\ NewRow[3] = "ERROR" => SourceThere
         /\ SourceThere \/ FileOfRow(NewRow) \in disk']_vars

\* the step appends a SKIP row
SkipStep ==
    /\ HasManifest
    /\ Len(manifest_rows') = Len(manifest_rows) + 1
    /\ NewRow[3] = "SKIP"

SkipCounters ==
    {"skip_no_num", "skip_no_hm", "skip_no_setdir", "skip_empty_set"}

C29_Step ==
    SkipStep =>
        /\ disk' = disk
        /\ dirs' = dirs
        /\ created_dirs' = created_dirs
        /\ manifest_file' = manifest_file
        /\ MkdirCalls(calls') = MkdirCalls(calls)
        /\ files' = files /\ pc' = pc /\ idx' = idx + 1
        /\ manifest_rows' = Append(manifest_rows, NewRow)
        /\ NewRow[1] = SrcPath(files[idx + 1])
        /\ NewRow[2] = <<>>
        /\ NewRow[4][1] \in {"no_number", "no_set_dir", "empty_set", "no_HM"}
        /\ stats'.processed = stats.processed + 1
        /\ stats'.skipped = stats.skipped + 1
        /\ \E c \in SkipCounters :
              /\ stats'[c] = stats[c] + 1
              /\ \A d \in SkipCounters \ {c} : stats'[d] = stats[d]
        /\ stats'.copied_ok = stats.copied_ok
        /\ stats'.copy_errors = stats.copy_errors
        /\ stats'.total = stats.total
        /\ stats'.done = stats.done
        /\ stats'.manifest_path = stats.manifest_path

\* C29: the handling of a record that is skipped (no_number, no_set_dir,
\* empty_set, no_HM) leaves every file and directory as it was: no output
\* directory is made, no temporary or destination file written, the B file
\* stays where it is; the manifest rows gain the one SKIP row, with an empty
\* dest, and processed, skipped and the counter of the reason go up by one.
C29_SkipLeavesFilesAlone == [][C29_Step]_vars

\* C29 witness: a record of a set whose A files have no tag for its index
\* was skipped; its B file is where it was and no directory was made.
C29_Witness ==
    /\ HasManifest
    /\ idx >= 1
    /\ manifest_rows[idx][3] = "SKIP"
    /\ manifest_rows[idx][4] = <<"no_HM">>
    /\ BFileOnDisk(files[idx]) \in disk
    /\ created_dirs = {}
    /\ stats.skip_no_hm = 1

(***************************************************************************)
(* AppSpec: App.run, the worker thread it starts and App._ui_tick          *)
(***************************************************************************)
MaxStarts == 2

Str_20250527 == <<"2", "0", "2", "5", "0", "5", "2", "7">>

Str_x250527 == <<"x", "2", "5", "0", "5", "2", "7">>

\* What run() reads: whether the B folder is a directory and its name, the A
\* root (whether it is a directory, and its entries as os.scandir yields
\* them), whether the output root is a directory.
Form(bIsDir, bName, aRoot, outIsDir) ==
    [b_is_dir |-> bIsDir, b_name |-> bName, a_root |-> aRoot,
     out_is_dir |-> outIsDir]

ARoot == [isDir |-> TRUE, entries |-> <<Dir(Str_250528), Dir(Str_250527)>>]

ARootOtherDay == [isDir |-> TRUE, entries |-> <<Dir(Str_250528)>>]

\* The forms of the model: the complete one, with the 8-digit name of the B
\* folder, and the ones with one thing wrong.
RunForms ==
    {Form(TRUE, Str_20250527, ARoot, TRUE),
     Form(FALSE, Str_250527, ARoot, TRUE),
     Form(TRUE, Str_250527, NoFolder, TRUE),
     Form(TRUE, Str_250527, ARoot, FALSE),
     Form(TRUE, Str_x250527, ARoot, TRUE),
     Form(TRUE, Str_250527, ARootOtherDay, TRUE)}

\* run() without the test of the thread
NoThreadIsAlive == FALSE

\* self._work_thread and self._work_thread.is_alive()
ThreadIsAlive == ui.alive > 0

\* run() without the test for an empty list of files
RunVerdictNoEmptyTest(form, listed) ==
    IF ThreadIsAlive THEN "warn_running"
    ELSE IF ~form.b_is_dir \/ ~form.a_root.isDir THEN "err_paths"
    ELSE IF app \in {"newapp", "newapp3"} /\ ~form.out_is_dir
    THEN "err_paths"
    ELSE IF app # "newapp3" /\ ~is_date_folder(form.b_name) THEN "err_b_name"
    ELSE IF app = "newapp2" /\ discipline = "move" /\ ~form.out_is_dir
    THEN "err_out"
    ELSE IF find_a_date_dir(form.a_root, to_yymmdd(form.b_name)) = NotFound
    THEN "err_a_date"
    ELSE "start"

\* run() up to the start of the worker: the message box of the first test
\* that fails, or "start". newapp.py and newapp3.py always need the output
\* root, newapp2.py only with camera_sort; newapp3.py does not test the name
\* of the B folder.
RunVerdict(form, listed) ==
    IF ThreadIsAlive THEN "warn_running"
    ELSE IF ~form.b_is_dir \/ ~form.a_root.isDir THEN "err_paths"
    ELSE IF app \in {"newapp", "newapp3"} /\ ~form.out_is_dir
    THEN "err_paths"
    ELSE IF app # "newapp3" /\ ~is_date_folder(form.b_name) THEN "err_b_name"
    ELSE IF app = "newapp2" /\ discipline = "move" /\ ~form.out_is_dir
    THEN "err_out"
    ELSE IF find_a_date_dir(form.a_root, to_yymmdd(form.b_name)) = NotFound
    THEN "err_a_date"
    ELSE IF Len(listed) = 0 THEN "info_no_files"
    ELSE "start"

\* the files of the B date folder now on disk, in the orders in which the
\* scans may yield them
BFilesOnDisk ==
    {BFile(f.dir[2], f.dir[3], f.name) : f \in {x \in disk : x.dir[1] = "b"}}

BScans ==
    {q \in DistinctSeqs(BFilesOnDisk, Cardinality(BFilesOnDisk)) :
        Len(q) = Cardinality(BFilesOnDisk)}

\* The installations of the model: the variant and its transfer mode, whether
\* the B tree and the output root share a device, the files of the B date
\* folder and what the output root holds. newapp.py copies one file;
\* newapp2.py moves one file of a stop, with and without a regular file where
\* its output directory would go, two files of a stop that the A tree does
\* not have, two files of one set, a file without an index, a file whose A
\* set folder cannot be read, and nothing; it renames one file in place;
\* newapp3.py renames one file.
Scenario(variant, same, sel, before) ==
    [variant |-> variant, same |-> same, sel |-> sel, before |-> before]

AppScenarios ==
    {Scenario(<<"newapp", "copy">>, TRUE,
              <<BFile(Str_Single, Str_0001, Str_lumi_01_jpg)>>, {}),
     Scenario(<<"newapp2", "move">>, TRUE,
              <<BFile(Str_0012, Str_0004, Str_y_05_jpg)>>, {}),
     Scenario(<<"newapp2", "move">>, TRUE,
              <<BFile(Str_0012, Str_0004, Str_y_05_jpg)>>,
              {OldFile(OutKeyDir, Str_05)}),
     Scenario(<<"newapp2", "move">>, TRUE,
              <<BFile(Str_0012, Str_0003, Str_x_05_jpg),
                BFile(Str_0012, Str_0003, Str_y_05_jpg)>>, {}),
     Scenario(<<"newapp2", "move">>, TRUE,
              <<BFile(Str_Single, Str_0001, Str_noindex_jpg)>>, {}),
     Scenario(<<"newapp2", "move">>, TRUE,
              <<BFile(Str_Single, Str_0004, Str_x_01_jpg)>>, {}),
     Scenario(<<"newapp2", "move">>, TRUE, <<>>, {}),
     Scenario(<<"newapp2", "inplace">>, TRUE,
              <<BFile(Str_Single, Str_0001, Str_lumi_01_jpg)>>, {}),
     Scenario(<<"newapp2", "move">>, TRUE,
              <<BFile(Str_Single, Str_0001, Str_lumi_01_jpg),
                BFile(Str_Single, Str_0001, Str_lumi_02_jpg)>>, {}),
     Scenario(<<"newapp3", "rename">>, TRUE,
              <<BFile(Str_Single, Str_0001, Str_lumi_01_jpg)>>, {})}

\* The front end: the threads started and alive, the state of the run
\* button, whether a _ui_tick is scheduled and whether it is between its two
\* parts, the message it took from the queue, the status line, whether the
\* status line has shown a warning since the last start, the message box
\* shown last by run() or _ui_tick ("none" when run() showed none), and the
\* form the last run() read.
UiInit ==
    [started |-> 0, alive |-> 0, run_btn |-> "normal",
     polling |-> FALSE, tick_pc |-> "idle", last_msg |-> <<>>,
     status |-> <<>>, warned |-> FALSE, dialog |-> "none", form |-> <<>>,
     seen |-> <<>>]

\* The application after __init__: no thread, the statistics at their
\* defaults, an empty queue; the B folder and the output root as the user
\* left them.
AppInit ==
    /\ FnIdle
    /\ cp = CopyIdle
    /\ \E sc \in AppScenarios :
          /\ app = sc.variant[1]
          /\ discipline = sc.variant[2]
          /\ sameDevice = sc.same
          /\ disk = sc.before \cup
                    {[dir |-> <<"b", sc.sel[k].top, sc.sel[k].set>>,
                      name |-> sc.sel[k].name,
                      data |-> <<<<"b", sc.sel[k].top, sc.sel[k].set>>,
                                 sc.sel[k].name>>,
                      whole |-> TRUE] : k \in 1..Len(sc.sel)}
    /\ dirs = {}
    /\ files = <<>>
    /\ pc = "none"
    /\ idx = 0
    /\ hm_cache = <<>>
    /\ created_dirs = {}
    /\ manifest_rows = <<>>
    /\ stats = StatsInit(0)
    /\ queue = <<>>
    /\ manifest_file = <<>>
    /\ raised = FALSE
    /\ calls = <<>>
    /\ ui = UiInit

\* run(), as the command of the run button: it returns after a message box,
\* or sets the statistics, disables the button, starts the worker thread
\* over the files listed and calls _ui_tick.
Run ==
    /\ ui # <<>>
    /\ ui.run_btn = "normal"
    /\ \E form \in RunForms, scan \in BScans :
          LET listed == list_all_b_files(BTreeOf(scan))
              verdict == RunVerdict(form, listed)
          IN  IF verdict = "start"
              THEN /\ ui.started < MaxStarts
                   /\ files' = listed
                   /\ stats' = StatsInit(Len(listed))
                   /\ pc' = "loop"
                   /\ idx' = 0
                   /\ hm_cache' = <<>>
                   /\ created_dirs' = {}
                   /\ manifest_rows' = <<>>
                   /\ raised' = FALSE
                   /\ calls' = <<>>
                   /\ ui' = [ui EXCEPT !.started = @ + 1, !.alive = @ + 1,
                                       !.run_btn = "disabled",
                                       !.polling = TRUE, !.tick_pc = "idle",
                                       !.warned = FALSE, !.dialog = "none",
                                       !.form = form]
                   /\ UNCHANGED <<fvars, cp, app, discipline, sameDevice,
                                  disk, dirs, queue, manifest_file>>
              ELSE /\ ui' = [ui EXCEPT !.dialog = verdict, !.form = form]
                   /\ UNCHANGED <<fvars, cp, wvars>>

\* the worker has returned or died of its exception: the thread is no
\* longer alive
ThreadEnds ==
    /\ ui # <<>>
    /\ pc = "exited"
    /\ ui.alive > 0
    /\ ui' = [ui EXCEPT !.alive = @ - 1]
    /\ UNCHANGED <<fvars, cp, wvars>>

\* _ui_tick, first part: the queue is emptied with get_nowait and the last
\* message taken, if any, is put in the status line
TickDrain ==
    /\ ui # <<>>
    /\ ui.polling
    /\ ui.tick_pc = "idle"
    /\ queue' = <<>>
    /\ ui' = IF queue = <<>>
             THEN [ui EXCEPT !.tick_pc = "drained", !.last_msg = <<>>,
                             !.seen = <<>>]
             ELSE [ui EXCEPT !.tick_pc = "drained", !.seen = <<>>,
                             !.last_msg = queue[Len(queue)],
                             !.status = <<queue[Len(queue)][1]>>,
                             !.warned = @ \/ queue[Len(queue)][1] = "warning"]
    /\ UNCHANGED <<fvars, cp, app, discipline, sameDevice, files, disk, dirs,
                   pc, idx, hm_cache, created_dirs, manifest_rows, stats,
                   manifest_file, raised, calls>>

\* What a read of self._stats by the other thread may find: the counters as
\* the worker left them after a record, or, while the worker is in its loop,
\* as they are between the increment of the record's outcome counter and
\* self._stats["processed"] += 1, which are separate statements with no
\* lock around them.
ReadableStats ==
    {stats} \cup
    (IF pc = "loop" /\ idx > 0 /\ stats.processed > 0
     THEN {[stats EXCEPT !.processed = @ - 1]}
     ELSE {})

\* _ui_tick, second part: the statistics are read; the progress line is
\* shown when no message was taken (newapp.py, newapp2.py); when done is
\* set the completion box is shown, the button enabled and the polling
\* stops, else the next tick is scheduled; seen holds the counters read
\* for the progress line
TickFinish ==
    /\ ui # <<>>
    /\ ui.polling
    /\ ui.tick_pc = "drained"
    /\ \E s \in ReadableStats :
          LET text  == app # "newapp3" /\ s.total > 0 /\ ui.last_msg = <<>>
              shown == IF text THEN <<"eta">> ELSE ui.status
              read  == IF text
                       THEN [processed |-> s.processed,
                             copied_ok |-> s.copied_ok,
                             skipped |-> s.skipped]
                       ELSE <<>>
          IN  ui' = IF stats.done
                    THEN [ui EXCEPT !.tick_pc = "idle", !.last_msg = <<>>,
                                    !.status = shown, !.dialog = "done",
                                    !.run_btn = "normal", !.polling = FALSE,
                                    !.seen = read]
                    ELSE [ui EXCEPT !.tick_pc = "idle", !.last_msg = <<>>,
                                    !.status = shown, !.seen = read]
    /\ UNCHANGED <<fvars, cp, wvars>>

\* Something outside the program removes a transferred file before the
\* worker verifies its OK rows.
OutputVanishes ==
    /\ ui # <<>>
    /\ pc = "verify"
    /\ \E k \in 1..Len(manifest_rows) :
          /\ manifest_rows[k][3] = "OK"
          /\ IsFile(manifest_rows[k][2])
          /\ disk' = disk \ FileAt(disk, manifest_rows[k][2][1],
                                   manifest_rows[k][2][2])
    /\ UNCHANGED <<fvars, cp, ui, app, discipline, sameDevice, files, dirs,
                   pc, idx, hm_cache, created_dirs, manifest_rows, stats,
                   queue, manifest_file, raised, calls>>

AppNext ==
    \/ Run
    \/ ThreadEnds
    \/ TickDrain
    \/ TickFinish
    \/ OutputVanishes
    \/ SkipNoNumber
    \/ ScanFails
    \/ SkipNoTag
    \/ MkdirFails
    \/ TransferCopy
    \/ TransferMove
    \/ RenameInPlace
    \/ TransferRename
    \/ LoopEnds
    \/ WriteManifest
    \/ VerifyOkRows
    \/ Finally
    \/ SetDoneAfterLoop

AppSpec == AppInit /\ [][AppNext]_vars

(***************************************************************************)
(* Claims about the application (checked under AppSpec)                    *)
(***************************************************************************)
\* the step is a call of run() (one that changes the front end)
RunStep ==
    /\ ui # <<>>
    /\ \/ ui'.started # ui.started
       \/ ui'.form # ui.form
       \/ ui'.dialog # ui.dialog /\ ui'.dialog # "done"

\* no entry of the A root is a directory whose digits end in the run key
NoADateFolder(form) ==
    LET key == [k \in 1..Min({6, Len(form.b_name)}) |->
                  form.b_name[Len(form.b_name) - Min({6, Len(form.b_name)}) + k]]
    IN  ~\E k \in 1..Len(form.a_root.entries) :
           /\ form.a_root.entries[k].isDir
           /\ Len(DigitsOf(form.a_root.entries[k].name)) >= 6
           /\ Last6(DigitsOf(form.a_root.entries[k].name)) = key

\* A setup failure, as the form and the disk show it: a root that is not a
\* directory (the output root where the variant needs it), a B folder name
\* that is not 6 or 8 digits (newapp.py, newapp2.py), no A date folder for
\* the run key, no file in the B date folder.
SetupFails(form) ==
    \/ ~form.b_is_dir
    \/ ~form.a_root.isDir
    \/ (app \in {"newapp", "newapp3"} \/ discipline = "move") /\ ~form.out_is_dir
    \/ /\ app # "newapp3"
       /\ ~(/\ Len(form.b_name) \in {6, 8}
            /\ \A k \in 1..Len(form.b_name) : IsDigit(form.b_name[k]))
    \/ NoADateFolder(form)
    \/ \A f \in disk : f.dir[1] # "b"

C13_Step ==
    (RunStep /\ SetupFails(ui'.form)) =>
        /\ UNCHANGED wvars
        /\ ui'.started = ui.started
        /\ ui'.alive = ui.alive
        /\ ui'.polling = ui.polling

\* C13: a run() that finds a root that is not a directory, a B folder name
\* that is not a date folder, no A date folder for the run key or no file to
\* process returns without starting a worker thread, with the statistics as
\* they were and with no file or directory created, moved, copied or renamed.
C13_SetupFailureStartsNothing == [][C13_Step]_vars

\* C13 witness: after a run that moved its one file, a second run() found no
\* file and returned; the statistics of the first run are still there.
C13_Witness ==
    /\ ui # <<>>
    /\ ui.dialog = "info_no_files"
    /\ ui.started = 1
    /\ ui.alive = 0
    /\ stats.done
    /\ stats.copied_ok = 1
    /\ stats.total = 1

C14_Step ==
    /\ (RunStep /\ ui.alive > 0) =>
          /\ UNCHANGED wvars
          /\ ui'.started = ui.started
          /\ ui'.alive = ui.alive
    /\ (ui # <<>> /\ ui'.started = ui.started) =>
          /\ idx' \in {idx, idx + 1}
          /\ Len(manifest_rows') \in {Len(manifest_rows), Len(manifest_rows) + 1}

\* C14: at most one worker thread is alive at any moment; a run() called
\* while one is alive starts no thread and leaves the statistics and
\* everything else of the worker as they are; a worker goes through its
\* records one at a time.
C14_OneWorkerAtATime ==
    /\ [](ui # <<>> => ui.alive <= 1)
    /\ [][C14_Step]_vars

\* C14 witness: run() was called while the thread of a worker that had set
\* done was still alive, and answered that a run is in progress.
C14_Witness ==
    /\ ui # <<>>
    /\ ui.dialog = "warn_running"
    /\ ui.alive = 1
    /\ ui.started = 1
    /\ pc = "exited"
    /\ stats.done

WarningInQueue == \E k \in 1..Len(queue) : queue[k][1] = "warning"

\* C15: when the front end has stopped polling, no warning of the worker is
\* left in the queue: every warning put was taken from the queue, and shown,
\* before the tick that read done.
C15_NoWarningLeftBehind ==
    (ui # <<>> /\ ~ui.polling) => ~WarningInQueue

\* C15: the worker found an OK row without its file and put its warning
\* after the tick had emptied the queue and set done before the tick read
\* it; the completion box is up, the polling has stopped, and the warning
\* was never shown.
C15_WarningNeverShown ==
    /\ ui # <<>>
    /\ ~ui.polling
    /\ ui.dialog = "done"
    /\ WarningInQueue
    /\ ~ui.warned
    /\ stats.done

BuildCalls(q) == SelectSeq(q, LAMBDA c : c[1] = "build_hm_index_for_set")

C16_Step ==
    (ui # <<>> /\ app # "newapp3" /\ ui'.started = ui.started) =>
        /\ \A k \in DOMAIN hm_cache :
              k \in DOMAIN hm_cache' /\ hm_cache'[k] = hm_cache[k]
        /\ (/\ pc = "loop"
            /\ idx' = idx + 1
            /\ CacheKey(files[idx + 1]) \in DOMAIN hm_cache) =>
              /\ BuildCalls(calls') = BuildCalls(calls)
              /\ Parsed.ok =>
                   (manifest_rows'[idx + 1][3] = "SKIP" <=>
                      HmGet(hm_cache[CacheKey(files[idx + 1])], Parsed.nn) = "")

\* C16: within a run of newapp.py or newapp2.py build_hm_index_for_set is
\* called at most once for a cache key, also when the mapping it gave is
\* empty or the A set folder is missing; a mapping stored in hm_cache is
\* never changed; a later record with a stored key is decided by the stored
\* mapping.
C16_IndexBuiltOncePerKey ==
    /\ []((ui # <<>> /\ app # "newapp3") => NoRepeat(BuildCalls(calls)))
    /\ [][C16_Step]_vars

\* C16 witness: two records of a stop the A tree does not have; the index
\* was built once, the empty mapping stored, and both records skipped.
C16_Witness ==
    /\ ui # <<>>
    /\ app = "newapp2"
    /\ idx = 2
    /\ Len(BuildCalls(calls)) = 1
    /\ CacheKey(files[1]) = CacheKey(files[2])
    /\ hm_cache[CacheKey(files[1])] = {}
    /\ stats.skip_no_setdir = 2

C20_Step ==
    (ui # <<>> /\ app # "newapp3") =>
        /\ (stats.done /\ ~stats'.done) => ui'.started = ui.started + 1
        /\ ui'.started = ui.started + 1 => ~stats'.done
        /\ (~stats.done /\ stats'.done) =>
              pc \in {"loop", "finally"} /\ pc' = "exited"
        /\ (pc = "exited" /\ ui'.started = ui.started) =>
              UNCHANGED <<files, disk, dirs, pc, idx, hm_cache, created_dirs,
                          manifest_rows, stats, manifest_file, raised, calls>>

\* C20: in newapp.py and newapp2.py done is False from the moment run() sets
\* the statistics, the worker sets it to True once, as its last action, and
\* it stays True until a later run() sets the statistics again.
C20_DoneFlipsOncePerRun ==
    /\ []((ui # <<>> /\ app # "newapp3" /\ pc # "none") =>
            (stats.done <=> pc = "exited"))
    /\ [][C20_Step]_vars

\* C20 witness: the worker of a second run has set done, which the second
\* run() had set back to False.
C20_Witness ==
    /\ ui # <<>>
    /\ app # "newapp3"
    /\ ui.started = 2
    /\ pc = "exited"
    /\ stats.done
    /\ stats.processed = stats.total

\* C25: the counters the poll tick reads for its progress line are those of
\* whole records: copied_ok + skipped = processed in everything it reads.
C25_TickReadsWholeRecords ==
    (ui # <<>> /\ ui.seen # <<>>) =>
        ui.seen.copied_ok + ui.seen.skipped = ui.seen.processed

\* C25: while the worker was in its loop the tick read copied_ok = 1 and
\* processed = 0.
C25_TickSawHalfARecord ==
    /\ ui # <<>>
    /\ ui.seen # <<>>
    /\ pc = "loop"
    /\ ~stats.done
    /\ ui.seen.copied_ok = 1
    /\ ui.seen.skipped = 0
    /\ ui.seen.processed = 0

\* C25, what holds: whenever the worker is between two records the shared
\* record itself has copied_ok + skipped = processed.
C25_WholeAtRecordBoundaries ==
    (ui # <<>> /\ pc \in {"loop", "manifest", "verify"}) =>
        stats.copied_ok + stats.skipped = stats.processed

\* the tick has read done = True for the run whose statistics are in place
DoneObserved == ui # <<>> /\ HasManifest /\ ui.dialog = "done"

\* C26: when the front end has read done = True, processed equals total,
\* manifest_rows has one row for each record found, and the manifest file is
\* written: manifest_path is not empty and the file exists with those rows.
C26_DoneMeansCompleteRun ==
    DoneObserved =>
        /\ stats.processed = stats.total
        /\ Len(manifest_rows) = Len(files)
        /\ stats.manifest_path # ""
        /\ manifest_file = <<Header>> \o manifest_rows

\* C26: the completion box is up after os.scandir or mkdir raised at the
\* first of the records: nothing was processed, there is no row and no
\* manifest file.
C26_DoneAfterEscapedException ==
    /\ DoneObserved
    /\ raised
    /\ stats.total > 0
    /\ stats.processed = 0
    /\ manifest_rows = <<>>
    /\ manifest_file = <<>>
    /\ stats.manifest_path = ""

\* C26, what holds: a run in which no exception left the loop is complete
\* when done is read, and its manifest file holds the rows whenever
\* manifest_path is set.
C26_CompleteUnlessRaised ==
    (DoneObserved /\ ~raised) =>
        /\ stats.processed = stats.total
        /\ Len(manifest_rows) = Len(files)
        /\ stats.manifest_path # "" => manifest_file = <<Header>> \o manifest_rows

====
